---- MODULE Spec2Model ----
(***************************************************************************)
(* Apparition: multi-account scheduled check-in service.                   *)
(*                                                                         *)
(* The module models, from the Python sources,                             *)
(*   - the check-in engine of checkin.py (do_checkin_for_user and the      *)
(*     store rows it reads and writes), specification SpecCheckin;         *)
(*   - the scan-login handshake of app.py / wps_auth.py (start_login,      *)
(*     wait_for_scan_task, get_login_status over the login_sessions map    *)
(*     and the WPSAuthSession objects), specification SpecLogin.           *)
(*                                                                         *)
(* The service runs on one asyncio event loop: code between two awaits is  *)
(* atomic, and every await is a point where other coroutines may run.      *)
(* Each action below is one such atomic stretch of a coroutine.            *)
(***************************************************************************)
EXTENDS Integers, Sequences, FiniteSets, TLC

\* ------------------------------------------------------------------ bounds
MaxUsers == 1          \* rows of the users table
MaxInv == 1            \* do_checkin_for_user invocations in one behaviour
MaxSessions == 2       \* start_login requests (WPSAuthSession objects)
MaxPolls == 2          \* get_login_status requests
MaxClock == 1          \* seconds the wall clock advances while logins run
MaxAccounts == 2       \* rows of the users table when do_checkin_all runs
MaxTriggers == 2       \* ids the schedule_configs AUTOINCREMENT sequence gives
MaxOps == 2            \* schedule requests and reconcile tasks in flight at once
MaxTokens == 2         \* cookies in one parsed cookies value
MaxRecords == 2        \* check-in records written before the last call starts
MaxOverlap == 2        \* do_checkin_for_user calls in progress at once

\* ------------------------------------------------------- program constants
DEFAULT_MAX_RETRIES == 2    \* checkin.py:28, max_retries: int = 2
RETRY_DELAY == 60           \* checkin.py:73, asyncio.sleep(60)

NULL == "NULL"              \* Python None / SQL NULL where a string is expected
NEVER == 0                  \* SQL NULL in users.last_checkin (stamps start at 1)
NO_RETRIES == -1            \* the retries slot of a message that names no count

UserIds == 1..MaxUsers
Inv == 1..MaxInv
\* max_retries: every call site leaves the default; the smaller values are
\* tried as well.
RetryArgs == 0..DEFAULT_MAX_RETRIES

VARIABLES
    users,          \* users table: id -> row, for the ids that have a row
    user_seq,       \* users AUTOINCREMENT sequence: the largest id ever given
    checkin_logs,   \* checkin_logs table, in insertion order
    now,            \* wall clock read by datetime.now() and time.time()
    call,           \* local state of each do_checkin_for_user invocation
    hist,           \* per invocation: the externally visible events so far
    login_sessions, \* app.py login_sessions: channel id -> session
    session,        \* the WPSAuthSession objects
    req,            \* the start_login requests
    task,           \* the wait_for_scan_task background tasks
    poll,           \* the get_login_status requests
    batch,          \* local state of the do_checkin_all run
    schedule_configs, \* schedule_configs table: the set of its rows
    schedule_seq,   \* schedule_configs AUTOINCREMENT sequence
    running,        \* scheduler.running
    jobs,           \* the jobs the AsyncIOScheduler holds
    op,             \* the schedule requests and setup tasks in progress
    response,       \* what the step just taken gave the caller of an operation
    quiet,          \* history: which reconcile ran undisturbed, and what it left
    parsed,         \* a parsed cookies value handed to execute_checkin
    playwright_cookies, \* per form of that value: the list given to add_cookies
    converted       \* the forms convert_cookies_to_playwright was applied to

checkinVars == <<checkin_logs, now, call, hist>>
loginVars == <<user_seq, login_sessions, session, req, task, poll>>
schedVars ==
    <<schedule_configs, schedule_seq, running, jobs, op, response, quiet>>
cookieVars == <<parsed, playwright_cookies, converted>>
vars == <<users, checkinVars, loginVars, batch, schedVars, cookieVars>>

\* ---------------------------------------------------------------- accounts
\* The cookies column holds text.  What the check-in code distinguishes:
\*   ""          empty text                    (not user.cookies)
\*   "malformed" text json.loads rejects
\*   "mapping"   a JSON object  name -> {value, domain, path}
\*   "sequence"  a JSON array of cookie records
\*   "scalar"    any other JSON value (number, string, null, true)
CookieTexts == {"", "malformed", "mapping", "sequence", "scalar"}

\* database.py User: the columns the check-in path reads or writes.
\* (sendkey is read only by send_user_notification: see Deliveries.)
UserRow(w, c, n) ==
    [wps_uid |-> w, cookies |-> c, input_name |-> n, last_checkin |-> NEVER,
     is_active |-> TRUE]

\* The rows an account with this id may hold when a check-in starts (wps_uid
\* is unique; the row's own id stands for it).
UserRows(id) == {UserRow(id, c, n) : c \in CookieTexts, n \in {"", "content"}}

\* json.loads(user.cookies): the parsed value, or "raise" for a decode error.
JsonLoads(text) == IF text = "malformed" THEN "raise" ELSE text

\* ------------------------------------------------------------ FormSubmitter
\* execute_checkin returns (True, "打卡成功"), or (False, message) for a
\* rejected or failed submission, or raises (the browser launch and context
\* creation are outside its try block).
FailMessages == {"rejected"}
SuccessMessage == "checked_in"

ExecResults ==
    {[kind |-> "ok", success |-> TRUE, message |-> SuccessMessage]}
    \cup {[kind |-> "ok", success |-> FALSE, message |-> m] : m \in FailMessages}
    \cup {[kind |-> "raise", success |-> FALSE, message |-> "fault"]}

\* convert_cookies_to_playwright runs inside execute_checkin's try block: a
\* parsed value that is neither a list nor a mapping makes it raise there, so
\* execute_checkin can only return (False, str(e)) or raise earlier.
ExecuteCheckin(cookies) ==
    IF cookies \in {"mapping", "sequence"}
    THEN ExecResults
    ELSE {r \in ExecResults : ~r.success}

\* f"重试{max_retries}次后仍失败: {last_error}"
FinalMessage(max_retries, last_error) ==
    [text |-> "retries_exhausted", retries |-> max_retries, last_error |-> last_error]

PlainMessage(t) == [text |-> t, retries |-> NO_RETRIES, last_error |-> NULL]

\* send_user_notification: what becomes of one call.  "skipped": the account
\* has no sendkey and nothing is sent; "sent": the request returned 200;
\* "send_failed": another status code or an exception, logged and swallowed.
Deliveries == {"skipped", "sent", "send_failed"}

\* ------------------------------------------------------------------ history
\* What one invocation has done so far, as seen from outside it: how many
\* times it called execute_checkin, asyncio.sleep(60), db.add_checkin_log and
\* send_user_notification, and with what.
\*   first      result of the first execute_checkin call ("true", "false",
\*              "raise"; NULL before it)
\*   all_false  every execute_checkin call so far returned (False, msg)
\*   after_true how many execute_checkin calls were made after one that
\*              had returned (True, msg)
\*   slept      the seconds of the asyncio.sleep calls that have ended
\*   trues      how many execute_checkin calls returned (True, msg)
SubmitStatus(r) == IF r.kind = "raise" THEN "raise" ELSE IF r.success THEN "true" ELSE "false"

NoHist ==
    [submits |-> 0, sleeps |-> 0, slept |-> 0, records |-> 0, notifies |-> 0,
     first |-> NULL, all_false |-> TRUE, trues |-> 0, after_true |-> 0,
     record_status |-> NULL, record_message |-> PlainMessage(NULL),
     notify_status |-> NULL, notify_message |-> PlainMessage(NULL), delivery |-> NULL]

OnSubmit(h, r) ==
    [h EXCEPT !.submits = @ + 1,
              !.first = IF h.submits = 0 THEN SubmitStatus(r) ELSE @,
              !.all_false = @ /\ SubmitStatus(r) = "false",
              !.trues = IF SubmitStatus(r) = "true" THEN @ + 1 ELSE @,
              !.after_true = IF h.trues > 0 THEN @ + 1 ELSE @]
OnSleep(h) == [h EXCEPT !.sleeps = @ + 1, !.slept = @ + RETRY_DELAY]
OnRecord(h, st, m) ==
    [h EXCEPT !.records = @ + 1, !.record_status = st, !.record_message = m]
\* st: "success" for success=True, "failed" for success=False.
OnNotify(h, st, m, d) ==
    [h EXCEPT !.notifies = @ + 1, !.notify_status = st, !.notify_message = m,
              !.delivery = d]

NoUser == UserRow(-1, NULL, NULL)

IdleCall ==
    [pc |-> "idle", user_id |-> 0, max_retries |-> 0, user |-> NoUser,
     cookies |-> NULL, attempt |-> 0, last_error |-> NULL,
     status |-> NULL, message |-> PlainMessage(NULL), ret |-> FALSE]

\* ------------------------------------------------------- do_checkin_for_user
\* Entry: app.py adds do_checkin_for_user(user.id) as a background task
\* (manual_self_checkin, manual_checkin); both leave max_retries at its default.
\* Invocation slots are taken in order.
Single(i, uid, mr) ==
    /\ call[i].pc = "idle"
    /\ \A j \in Inv : j < i => call[j].pc # "idle"
    /\ call' = [call EXCEPT ![i] =
                    [IdleCall EXCEPT !.pc = "get_user", !.user_id = uid,
                                     !.max_retries = mr]]
    /\ UNCHANGED <<users, checkin_logs, now, hist, loginVars, cookieVars, batch, schedVars>>

\* A retry loop over range(max_retries): one attempt short.
LoopHeadOneShort(c) ==
    IF c.attempt < c.max_retries
    THEN [c EXCEPT !.pc = IF c.attempt > 0 THEN "sleep" ELSE "execute"]
    ELSE [c EXCEPT !.pc = "log", !.status = "failed",
                   !.message = [text |-> "retries_exhausted", retries |-> c.max_retries,
                                last_error |-> c.last_error]]

\* A retry loop without the sleep before a retry.
LoopHeadNoDelay(c) ==
    IF c.attempt < c.max_retries + 1
    THEN [c EXCEPT !.pc = "execute"]
    ELSE [c EXCEPT !.pc = "log", !.status = "failed",
                   !.message = FinalMessage(c.max_retries, c.last_error)]

\* The head of the retry loop: range(max_retries + 1) at index attempt.
LoopHead(c) ==
    IF c.attempt < c.max_retries + 1
    THEN [c EXCEPT !.pc = IF c.attempt > 0 THEN "sleep" ELSE "execute"]
    ELSE [c EXCEPT !.pc = "log", !.status = "failed",
                   !.message = FinalMessage(c.max_retries, c.last_error)]

\* A fail-fast path that notifies without persisting the failure.
FailFastUnlogged(c, text) ==
    [c EXCEPT !.pc = "notify", !.status = "failed", !.message = PlainMessage(text)]

FailFast(c, text) ==
    [c EXCEPT !.pc = "log", !.status = "failed", !.message = PlainMessage(text)]

\* db.get_user: the row with this id, or None.
get_user(user_id) == IF user_id \in DOMAIN users THEN users[user_id] ELSE NoUser

\* The checks without the json.loads guard: a malformed blob enters the loop.
AfterGetUserUnparsed(c, user) ==
    IF user = NoUser
    THEN [c EXCEPT !.pc = "done", !.ret = FALSE]
    ELSE IF user.cookies = ""
    THEN FailFast([c EXCEPT !.user = user], "no_credential")
    ELSE IF user.input_name = ""
    THEN FailFast([c EXCEPT !.user = user], "no_content")
    ELSE LoopHead([c EXCEPT !.user = user, !.cookies = user.cookies,
                            !.attempt = 0, !.last_error = NULL])

\* A lookup whose miss is handled like the other fail-fast exits, with a
\* record and a notification.
AfterGetUserMissLogged(c, user) ==
    IF user = NoUser
    THEN FailFast(c, "no_account")
    ELSE IF user.cookies = ""
    THEN FailFast([c EXCEPT !.user = user], "no_credential")
    ELSE IF user.input_name = ""
    THEN FailFast([c EXCEPT !.user = user], "no_content")
    ELSE IF JsonLoads(user.cookies) = "raise"
    THEN FailFast([c EXCEPT !.user = user], "cookie_format_error")
    ELSE LoopHead([c EXCEPT !.user = user, !.cookies = JsonLoads(user.cookies),
                            !.attempt = 0, !.last_error = NULL])

\* user = await db.get_user(user_id) and the checks up to the first await.
AfterGetUser(c, user) ==
    IF user = NoUser
    THEN [c EXCEPT !.pc = "done", !.ret = FALSE]
    ELSE IF user.cookies = ""
    THEN FailFast([c EXCEPT !.user = user], "no_credential")
    ELSE IF user.input_name = ""
    THEN FailFast([c EXCEPT !.user = user], "no_content")
    ELSE IF JsonLoads(user.cookies) = "raise"
    THEN FailFast([c EXCEPT !.user = user], "cookie_format_error")
    ELSE LoopHead([c EXCEPT !.user = user, !.cookies = JsonLoads(user.cookies),
                            !.attempt = 0, !.last_error = NULL])

GetUser(i) ==
    /\ call[i].pc = "get_user"
    /\ call' = [call EXCEPT ![i] = AfterGetUser(call[i], get_user(call[i].user_id))]
    /\ UNCHANGED <<users, checkin_logs, now, hist, loginVars, cookieVars, batch, schedVars>>

\* await asyncio.sleep(60) before a retry.
RetrySleep(i) ==
    /\ call[i].pc = "sleep"
    /\ call' = [call EXCEPT ![i].pc = "execute"]
    /\ hist' = [hist EXCEPT ![i] = OnSleep(@)]
    /\ UNCHANGED <<users, checkin_logs, now, loginVars, cookieVars, batch, schedVars>>

\* A loop body that records the success but goes on to the next attempt.
AfterExecuteNoReturn(c, r) ==
    LoopHead([c EXCEPT !.last_error = r.message, !.attempt = c.attempt + 1])

\* What the loop body does with the result of one execute_checkin call.
AfterExecute(c, r) ==
    IF r.kind = "ok" /\ r.success
    THEN [c EXCEPT !.pc = "log", !.status = "success",
                   !.message = PlainMessage(r.message)]
    ELSE LoopHead([c EXCEPT !.last_error = r.message, !.attempt = c.attempt + 1])

\* One attempt: await execute_checkin(...).
Execute(i) ==
    /\ call[i].pc = "execute"
    /\ \E r \in ExecuteCheckin(call[i].cookies) :
           /\ call' = [call EXCEPT ![i] = AfterExecute(call[i], r)]
           /\ hist' = [hist EXCEPT ![i] = OnSubmit(@, r)]
    /\ UNCHANGED <<users, checkin_logs, now, loginVars, cookieVars, batch, schedVars>>

\* A record step that is followed by update_last_checkin whatever the
\* outcome recorded.
AfterLogAlways(c) == [c EXCEPT !.pc = "update_last"]

\* await db.add_checkin_log(user_id, status, message)
AfterLog(c) ==
    [c EXCEPT !.pc = IF c.status = "success" THEN "update_last" ELSE "notify"]

AddCheckinLog(i) ==
    /\ call[i].pc = "log"
    /\ checkin_logs' = Append(checkin_logs,
           [user_id |-> call[i].user_id, status |-> call[i].status,
            message |-> call[i].message])
    /\ hist' = [hist EXCEPT ![i] = OnRecord(@, call[i].status, call[i].message)]
    /\ call' = [call EXCEPT ![i] = AfterLog(call[i])]
    /\ UNCHANGED <<users, now, loginVars, cookieVars, batch, schedVars>>

\* A success branch that goes on without writing last_checkin.
UpdateLastCheckinNoWrite(i) ==
    /\ call[i].pc = "update_last"
    /\ call' = [call EXCEPT ![i].pc = "notify"]
    /\ UNCHANGED <<users, checkin_logs, now, hist, loginVars, cookieVars, batch, schedVars>>

\* await db.update_last_checkin(user_id): UPDATE users SET last_checkin = now
\* WHERE id = user_id (no row, no change).
UpdateLastCheckin(i) ==
    /\ call[i].pc = "update_last"
    /\ now' = now + 1
    /\ users' = IF call[i].user_id \notin DOMAIN users THEN users
                ELSE [users EXCEPT ![call[i].user_id].last_checkin = now']
    /\ call' = [call EXCEPT ![i].pc = "notify"]
    /\ UNCHANGED <<checkin_logs, hist, loginVars, cookieVars, batch, schedVars>>

\* return: the locals are gone; what was asked, the account as it was loaded
\* and the returned value stay for the caller.
Return(c, value) ==
    [IdleCall EXCEPT !.pc = "done", !.user_id = c.user_id,
                     !.max_retries = c.max_retries, !.user = c.user, !.ret = value]

\* A notification whose delivery failure is raised to its caller: on the
\* success path the call stands inside the loop's try block, so the except
\* branch takes it for a failed attempt; on the other paths it ends the call.
NotifyRaising(i) ==
    /\ call[i].pc = "notify"
    /\ \E d \in Deliveries :
           /\ hist' = [hist EXCEPT ![i] = OnNotify(@, call[i].status, call[i].message, d)]
           /\ call' = [call EXCEPT ![i] =
                  IF d # "send_failed"
                  THEN Return(call[i], call[i].status = "success")
                  ELSE IF call[i].status = "success"
                  THEN LoopHead([call[i] EXCEPT !.last_error = "notify_fault",
                                                !.attempt = @ + 1,
                                                !.status = NULL,
                                                !.message = PlainMessage(NULL)])
                  ELSE Return(call[i], FALSE)]
    /\ UNCHANGED <<users, checkin_logs, now, loginVars, cookieVars, batch, schedVars>>

\* send_user_notification(user, success, message); return success.
\* The call is synchronous and swallows every delivery failure.
Notify(i) ==
    /\ call[i].pc = "notify"
    /\ \E d \in Deliveries :
           hist' = [hist EXCEPT ![i] = OnNotify(@, call[i].status, call[i].message, d)]
    /\ call' = [call EXCEPT ![i] = Return(call[i], call[i].status = "success")]
    /\ UNCHANGED <<users, checkin_logs, now, loginVars, cookieVars, batch, schedVars>>

\* ------------------------------------------------------------ do_checkin_all
\* listing: the ids get_all_active_users returned, in the order of the
\* result; idx: the position of the account being processed; delays: the
\* asyncio.sleep(3) calls that have ended.
IdleBatch ==
    [pc |-> "idle", listing |-> <<>>, idx |-> 0, success_count |-> 0,
     fail_count |-> 0, delays |-> 0]

\* ========================================================= login state
\* One WPSAuthSession per start_login request, one wait_for_scan_task per
\* request that registered its session.

SessionIds == 1..MaxSessions
PollIds == 1..MaxPolls
Clock == 0..MaxClock

\* A channel id is the one the remote service gave for this QR code (taken
\* fresh for every session) or "ch_<seconds>" synthesized from the clock.
RemoteChannel(s) == [src |-> "remote", n |-> s]
TimeChannel(t) == [src |-> "time", n |-> t]
NoChannel == [src |-> "none", n |-> 0]

AUTH_COOKIES == {"wps_sid", "rtk", "kso_sid"}

\* What page.context.cookies() can hold when the wait ends: the cookie names
\* and the text of the uid cookie ("" when there is none).
CookieJar(names, uid) == [names |-> names, uid |-> uid]
CookieJars ==
    { CookieJar({}, ""), CookieJar({"csrf"}, ""), CookieJar({"wps_sid"}, ""),
      CookieJar({"rtk", "uid"}, "1"), CookieJar({"kso_sid", "uid"}, "x") }

NONE == 0                   \* Python None in an integer slot

\* int(cookies_dict["uid"]["value"]), None when it raises.
ParseUid(text) == IF text = "1" THEN 1 ELSE NONE

LoginResult(success, cookies, user_id, error) ==
    [success |-> success, cookies |-> cookies, user_id |-> user_id,
     error |-> error]
NoResult == LoginResult(FALSE, {}, NONE, "unset")

\* A wait_for_login without the has_auth test.
WaitForLoginUnchecked(jar) ==
    IF jar.names = {}
    THEN LoginResult(FALSE, {}, NONE, "no_cookie")
    ELSE LoginResult(TRUE, jar.names,
                     IF "uid" \in jar.names THEN ParseUid(jar.uid) ELSE NONE,
                     NULL)

\* The return statements of WPSAuth.wait_for_login after the polling loop.
WaitForLogin(jar) ==
    IF jar.names = {}
    THEN LoginResult(FALSE, {}, NONE, "no_cookie")
    ELSE IF jar.names \cap AUTH_COOKIES = {}
         THEN LoginResult(FALSE, {}, NONE, "missing_credential")
         ELSE LoginResult(TRUE, jar.names,
                          IF "uid" \in jar.names THEN ParseUid(jar.uid)
                                                 ELSE NONE, NULL)

\* page.context.cookies() raising inside the extraction try block.
ChannelFault == LoginResult(FALSE, {}, NONE, "channel_fault")

\* What the final page.context.cookies() call of wait_for_login did: it
\* returned a jar, or it raised.
Returned(jar) == [raised |-> FALSE, jar |-> jar]
Raised == [raised |-> TRUE, jar |-> CookieJar({}, "")]
NoCookies == [raised |-> FALSE, jar |-> CookieJar({"unread"}, "")]
ChannelReturns == {Returned(jar) : jar \in CookieJars} \cup {Raised}

\* The extraction try block of wait_for_login, with its except branch.
Extract(got) == IF got.raised THEN ChannelFault ELSE WaitForLogin(got.jar)

\* WPSAuthSession.__init__; opened counts the resources WPSAuth holds in
\* the order it takes them (playwright, browser, page) and released those
\* a close() has released; closes counts the close() calls begun, ended
\* those that have ended, and reissued the release calls made on a
\* resource that an earlier close() had released.
NewSession ==
    [status |-> "init", qrcode |-> NoChannel, result |-> NoResult,
     error |-> NULL, db_user_id |-> NONE, opened |-> 0, closes |-> 0,
     released |-> 0, ended |-> 0, reissued |-> 0]
Unborn == [NewSession EXCEPT !.status = "unborn"]

ALL_RESOURCES == 3          \* playwright, browser, page

IdleReq == [pc |-> "idle", channel_id |-> NoChannel]
NoTask ==
    [pc |-> "none", channel_id |-> NoChannel, session |-> NONE,
     got |-> NoCookies, result |-> NoResult, existing |-> NONE]
IdlePoll ==
    [pc |-> "idle", channel_id |-> NoChannel, session |-> NONE,
     status |-> NULL, user_id |-> NONE, wps_uid |-> NONE, error |-> NULL,
     token_user |-> NONE, late |-> FALSE]

EmptyRegistry == [c \in {} |-> NONE]

InitLoginIdle ==
    /\ login_sessions = EmptyRegistry
    /\ session = [s \in SessionIds |-> Unborn]
    /\ req = [s \in SessionIds |-> IdleReq]
    /\ task = [s \in SessionIds |-> NoTask]
    /\ poll = [p \in PollIds |-> IdlePoll]

\* ------------------------------------------------------------ cookie values
\* What json.loads gives for the cookies column when the text is an object
\* or an array: form "dict" with its entries in the order of the text (a
\* Python dict keeps it), or form "list" with its items.  An entry is a name
\* and the info under it; an info that is a dict may lack any of its keys
\* (MISSING), an info that is not a dict is known by its text str(info).
MISSING == "MISSING"
WPS_DOMAIN == ".wps.cn"         \* checkin.py:244, :252 and :260
KDOCS_DOMAIN == ".kdocs.cn"     \* checkin.py:262
TokenNames == {"rtk", "wps_sid"}
Values == {"v"}
Domains == {WPS_DOMAIN, KDOCS_DOMAIN}
Paths == {"/x"}

Infos ==
    [kind : {"dict"}, value : Values \cup {MISSING},
     domain : Domains \cup {MISSING}, path : Paths \cup {MISSING}]
        \cup [kind : {"other"}, value : Values, domain : {MISSING},
              path : {MISSING}]

\* The parsed objects: up to MaxTokens entries under distinct names.
Mappings ==
    {m \in UNION {[1..n -> [name : TokenNames, info : Infos]] :
                      n \in 0..MaxTokens} :
        \A i, j \in DOMAIN m : m[i].name = m[j].name => i = j}

DictForm(m) == [form |-> "dict", items |-> m]

\* The same cookies written as an array of records, the name among the
\* keys: possible when every info is a dict.
Flat(m) == \A i \in DOMAIN m : m[i].info.kind = "dict"

ListForm(m) ==
    [form |-> "list",
     items |-> [i \in DOMAIN m |->
                   [name |-> m[i].name, value |-> m[i].info.value,
                    domain |-> m[i].info.domain, path |-> m[i].info.path]]]

InitCookiesIdle ==
    /\ parsed = <<>>
    /\ playwright_cookies = [form \in {"dict", "list"} |-> <<>>]
    /\ converted = {}

\* -------------------------------------------------------- scheduler state
MAX_HOUR == 23              \* database.py:461, 0 <= hour <= 23
MAX_MINUTE == 59            \* database.py:463, 0 <= minute <= 59
DEFAULT_HOUR == 19          \* database.py:168, the row init() inserts
DEFAULT_MINUTE == 0         \* database.py:168
BAD_REQUEST == 400          \* app.py:603, HTTPException(status_code=400)
OK == 200                   \* app.py:597, a handler that returns its dict

TriggerIds == 1..MaxTriggers
OpIds == 1..MaxOps
Names == {"a"}
HourArgs == {-1, 0, 24}
MinuteArgs == {-1, 59, 60}

\* database.py _row_to_schedule: one row of schedule_configs.
ScheduleConfig(id, name, hour, minute, is_enabled) ==
    [id |-> id, name |-> name, hour |-> hour, minute |-> minute,
     is_enabled |-> is_enabled]

\* database.py init(): the row an empty table is given.
DefaultSchedule ==
    ScheduleConfig(1, "default", DEFAULT_HOUR, DEFAULT_MINUTE, TRUE)

\* An empty dict of keyword arguments.
NoKwargs == <<>>

\* app.py update_schedule: update_data, the fields of the request body that
\* are not None: no field, hour, minute or is_enabled alone with each of its
\* values, and hour and minute together, each in and out of range.  The
\* name is left out: it is copied to the job and decides nothing.
UpdateData ==
    {NoKwargs}
        \cup {"hour" :> v : v \in HourArgs}
        \cup {"minute" :> v : v \in MinuteArgs}
        \cup {"is_enabled" :> v : v \in BOOLEAN}
        \cup {("hour" :> h) @@ ("minute" :> m) :
                 h \in HourArgs, m \in MinuteArgs}

\* One schedule request (create, update, delete, toggle) or one
\* setup_scheduler_from_db task in progress.  pc is the await the coroutine
\* is parked at; trail lists what it has done: "write" for a store write
\* statement, "begin" and "end" for the reconcile it ran.
IdleOp ==
    [pc |-> "idle", kind |-> NULL, id |-> NONE, new_status |-> FALSE,
     schedules |-> <<>>, trail |-> <<>>]

\* What the step just taken gave a caller, if it ended an operation: the
\* status of the HTTP response, the text of the error, and the trail of the
\* operation.  kind names the handler of a rejected request; an operation
\* that ran to its end is a handler's "refresh" or the "setup" task, which
\* answers nobody.
Response(kind, status, detail, trail) ==
    [kind |-> kind, status |-> status, detail |-> detail, trail |-> trail]

NoResponse == Response(NULL, NONE, NULL, <<>>)

\* History of the reconciles: alone holds the operation whose reconcile has
\* run so far with no other reconcile in progress and no change of the
\* enabled triggers; valid says that the last reconcile ended that way and
\* that the enabled triggers have not changed since, timers is what it
\* left, and again says that the one before it ended that way too.
NoQuiet == [alone |-> {}, valid |-> FALSE, again |-> FALSE, timers |-> {}]

InitSchedIdle ==
    /\ schedule_configs = {}
    /\ schedule_seq = 0
    /\ running = FALSE
    /\ jobs = {}
    /\ op = [o \in OpIds |-> IdleOp]
    /\ response = NoResponse
    /\ quiet = NoQuiet

InitCheckin ==
    /\ \E D \in SUBSET UserIds :
           users \in {u \in [D -> UNION {UserRows(id) : id \in D}] :
                          \A id \in D : u[id] \in UserRows(id)}
    /\ user_seq = MaxUsers
    /\ InitLoginIdle
    /\ batch = IdleBatch
    /\ InitCookiesIdle
    /\ InitSchedIdle
    /\ checkin_logs = <<>>
    /\ now = 0
    /\ call = [i \in Inv |-> IdleCall]
    /\ hist = [i \in Inv |-> NoHist]

NextCheckin ==
    \/ \E i \in Inv, uid \in UserIds, mr \in RetryArgs : Single(i, uid, mr)
    \/ \E i \in Inv : GetUser(i)
    \/ \E i \in Inv : RetrySleep(i)
    \/ \E i \in Inv : Execute(i)
    \/ \E i \in Inv : AddCheckinLog(i)
    \/ \E i \in Inv : UpdateLastCheckin(i)
    \/ \E i \in Inv : Notify(i)

SpecCheckin == InitCheckin /\ [][NextCheckin]_vars

\* ------------------------------------------------- reading an invocation
Done(i) == call[i].pc = "done"
Started(i) == call[i].pc \notin {"idle", "get_user"}
AccountExists(i) == Started(i) /\ call[i].user # NoUser
\* The account as loaded passes the three checks before the retry loop.
Configured(i) ==
    /\ AccountExists(i)
    /\ call[i].user.cookies # ""
    /\ call[i].user.input_name # ""
    /\ JsonLoads(call[i].user.cookies) # "raise"
\* The account as loaded fails one of them.
FailsFast(i) == AccountExists(i) /\ ~Configured(i)
\* The table holds a row of this account with this outcome and message.
Logged(uid, st, m) ==
    \E n \in 1..Len(checkin_logs) :
        /\ checkin_logs[n].user_id = uid
        /\ checkin_logs[n].status = st
        /\ checkin_logs[n].message = m

\* ====================================================== check-in claims

\* C1: for an account with a parseable credential blob and content, an
\* invocation whose every FormSubmitter call returned (False, msg) makes
\* exactly max_retries + 1 submission attempts and then writes exactly one
\* record, with outcome failed and a message naming the retry count.  Until
\* the last attempt is made nothing is written.
C1_AllFalseExhausts ==
    \A i \in Inv :
        (Configured(i) /\ hist[i].all_false) =>
            /\ hist[i].submits <= call[i].max_retries + 1
            /\ hist[i].records <= 1
            /\ hist[i].records = 1 =>
                  /\ hist[i].submits = call[i].max_retries + 1
                  /\ hist[i].record_status = "failed"
                  /\ hist[i].record_message.text = "retries_exhausted"
                  /\ hist[i].record_message.retries = call[i].max_retries
                  /\ Logged(call[i].user_id, "failed", hist[i].record_message)
            /\ Done(i) => hist[i].records = 1

C1_Witness ==
    \E i \in Inv :
        /\ Done(i) /\ Configured(i) /\ hist[i].all_false
        /\ call[i].max_retries = DEFAULT_MAX_RETRIES
        /\ hist[i].submits = DEFAULT_MAX_RETRIES + 1
        /\ hist[i].record_message.retries = DEFAULT_MAX_RETRIES

C4_FailFast ==
    \A i \in Inv :
        FailsFast(i) =>
            /\ hist[i].submits = 0
            /\ hist[i].sleeps = 0
            /\ call[i].pc \in {"log", "notify", "done"}
            /\ hist[i].records = 1 =>
                  /\ hist[i].record_status = "failed"
                  /\ hist[i].record_message.retries = NO_RETRIES
            /\ hist[i].notifies = 1 => hist[i].notify_status = "failed"
            /\ Done(i) =>
                  /\ hist[i].records = 1
                  /\ hist[i].notifies = 1
                  /\ call[i].ret = FALSE

C4_Witness ==
    \E i \in Inv :
        /\ Done(i) /\ FailsFast(i)
        /\ call[i].user.cookies = "malformed" /\ call[i].user.input_name # ""
        /\ hist[i].records = 1 /\ hist[i].notifies = 1


\* ======================================================= login actions
\* Each action is one stretch of code between two suspension points of the
\* event loop.

Put(registry, ch, s) ==
    [c \in DOMAIN registry \cup {ch} |-> IF c = ch THEN s ELSE registry[c]]
Del(registry, ch) == [c \in DOMAIN registry \ {ch} |-> registry[c]]
Get(registry, ch) == IF ch \in DOMAIN registry THEN registry[ch] ELSE NONE

\* time.time() moving to the next second.
Tick ==
    /\ now < MaxClock
    /\ now' = now + 1
    /\ UNCHANGED <<users, checkin_logs, call, hist, loginVars, cookieVars, batch, schedVars>>

\* start_login up to the suspension in session.start().
StartLogin(s) ==
    /\ req[s].pc = "idle"
    /\ \A r \in SessionIds : r < s => req[r].pc # "idle"
    /\ session' = [session EXCEPT ![s] = NewSession]
    /\ req' = [req EXCEPT ![s].pc = "starting"]
    /\ UNCHANGED <<cookieVars, schedVars, batch, users, checkinVars, user_seq, login_sessions, task, poll>>

\* get_qrcode's channel id: the remote one, or ch_<seconds> without one.
ChannelId(s, remote) == IF remote THEN RemoteChannel(s) ELSE TimeChannel(now)

\* session.start() returns: the session is registered under its channel id
\* and the background task is queued, with no suspension in between.
StartOk(s, remote) ==
    /\ req[s].pc = "starting"
    /\ LET ch == ChannelId(s, remote) IN
        /\ session' = [session EXCEPT ![s].status = "waiting",
                                      ![s].qrcode = ch,
                                      ![s].opened = ALL_RESOURCES]
        /\ login_sessions' = Put(login_sessions, ch, s)
        /\ task' = [task EXCEPT ![s].pc = "scheduled", ![s].channel_id = ch]
        /\ req' = [req EXCEPT ![s].pc = "returned", ![s].channel_id = ch]
    /\ UNCHANGED <<cookieVars, schedVars, batch, users, checkinVars, user_seq, poll>>

\* A start_login that stores the session before session.start() has
\* returned, so that a failed start leaves its entry behind.
StartRaiseRegistered(s, held) ==
    /\ req[s].pc = "starting"
    /\ session' = [session EXCEPT ![s].opened = held,
                                  ![s].closes = @ + 1]
    /\ login_sessions' = Put(login_sessions, ChannelId(s, FALSE), s)
    /\ req' = [req EXCEPT ![s].pc = "closing"]
    /\ UNCHANGED <<cookieVars, schedVars, batch, users, checkinVars, user_seq, task, poll>>

\* session.start() raises after taking `held` resources; the except branch
\* begins session.close().
StartRaise(s, held) ==
    /\ req[s].pc = "starting"
    /\ session' = [session EXCEPT ![s].opened = held,
                                  ![s].closes = @ + 1]
    /\ req' = [req EXCEPT ![s].pc = "closing"]
    /\ UNCHANGED <<cookieVars, schedVars, batch, users, checkinVars, user_seq, login_sessions, task, poll>>

\* WPSAuth.close() ends. It has called close / stop on every resource the
\* session ever took: the fields are never cleared, so a close() that ends
\* after another one has called them on released resources.
Close(sess) ==
    [sess EXCEPT !.released = sess.opened,
                 !.ended = @ + 1,
                 !.reissued = IF sess.ended > 0 THEN @ + sess.opened ELSE @]

\* session.close() returns in the except branch; HTTPException(500).
StartFailed(s) ==
    /\ req[s].pc = "closing"
    /\ session' = [session EXCEPT ![s] = Close(@)]
    /\ req' = [req EXCEPT ![s].pc = "failed"]
    /\ UNCHANGED <<cookieVars, schedVars, batch, users, checkinVars, user_seq, login_sessions, task, poll>>

\* wait_for_scan_task begins: it looks its session up by channel id.
TaskStart(s) ==
    /\ task[s].pc = "scheduled"
    /\ LET found == Get(login_sessions, task[s].channel_id) IN
        task' = [task EXCEPT ![s].session = found,
                             ![s].pc = IF found = NONE THEN "done"
                                                       ELSE "waiting"]
    /\ UNCHANGED <<cookieVars, schedVars, batch, users, checkinVars, user_seq, login_sessions, session,
                   req, poll>>

LoginOutcomes == {Extract(got) : got \in ChannelReturns}

\* WPSAuthSession.wait_and_login after wait_for_login returned.
WaitAndLogin(sess, result) ==
    [sess EXCEPT !.result = result,
                 !.status = IF result.success THEN "success" ELSE "failed",
                 !.error = IF result.success THEN @ ELSE result.error]

\* The task resumes from session.wait_and_login().
Scanned(s, got) ==
    /\ task[s].pc = "waiting"
    /\ LET result == Extract(got) IN
        /\ session' = [session EXCEPT
                           ![task[s].session] = WaitAndLogin(@, result)]
        /\ task' = [task EXCEPT ![s].got = got,
                                ![s].result = result,
                                ![s].pc = IF result.success THEN "select"
                                                            ELSE "done"]
    /\ UNCHANGED <<cookieVars, schedVars, batch, users, checkinVars, user_seq, login_sessions, req, poll>>

\* db.add_user: SELECT id FROM users WHERE wps_uid = ?
Existing(wps_uid) ==
    IF \E id \in DOMAIN users : users[id].wps_uid = wps_uid
    THEN CHOOSE id \in DOMAIN users : users[id].wps_uid = wps_uid
    ELSE NONE

AddUserSelect(s) ==
    /\ task[s].pc = "select"
    /\ task' = [task EXCEPT ![s].existing = Existing(task[s].result.user_id),
                            ![s].pc = "write"]
    /\ UNCHANGED <<cookieVars, schedVars, batch, users, checkinVars, user_seq, login_sessions, session,
                   req, poll>>

\* wait_for_scan_task after add_user returned: the id is attached.
Attach(sess, user_id) == [sess EXCEPT !.db_user_id = user_id]

\* wait_for_scan_task's except branch.
Except(sess) == [sess EXCEPT !.status = "failed", !.error = "persist_fault"]

\* An add_user over a table without UNIQUE (wps_uid): the INSERT is made
\* whenever the SELECT had found no row.
AddUserWriteNoUnique(s, fault) ==
    /\ task[s].pc = "write"
    /\ LET w == task[s].result.user_id
           b == task[s].session
           old == task[s].existing
           new == user_seq + 1
       IN
        IF fault
        THEN /\ session' = [session EXCEPT ![b] = Except(@)]
             /\ UNCHANGED <<users, user_seq>>
        ELSE IF old # NONE
        THEN /\ users' = [id \in DOMAIN users |->
                             IF users[id].wps_uid = w
                             THEN [users[id] EXCEPT !.cookies = "mapping"]
                             ELSE users[id]]
             /\ session' = [session EXCEPT ![b] = Attach(@, old)]
             /\ UNCHANGED user_seq
        ELSE /\ users' = [id \in DOMAIN users \cup {new} |->
                             IF id = new THEN UserRow(w, "mapping", "")
                                         ELSE users[id]]
             /\ user_seq' = new
             /\ session' = [session EXCEPT ![b] = Attach(@, new)]
    /\ task' = [task EXCEPT ![s].pc = "done"]
    /\ UNCHANGED <<cookieVars, schedVars, batch, checkinVars, login_sessions, req, poll>>

\* db.add_user's UPDATE or INSERT and the task's code after it. The store
\* may fail the statement; the INSERT fails on a taken wps_uid (UNIQUE).
AddUserWrite(s, fault) ==
    /\ task[s].pc = "write"
    /\ LET w == task[s].result.user_id
           b == task[s].session
           old == task[s].existing
           new == user_seq + 1
       IN
        IF fault \/ (old = NONE /\ Existing(w) # NONE)
        THEN /\ session' = [session EXCEPT ![b] = Except(@)]
             /\ UNCHANGED <<users, user_seq>>
        ELSE IF old # NONE
        THEN /\ users' = [id \in DOMAIN users |->
                             IF users[id].wps_uid = w
                             THEN [users[id] EXCEPT !.cookies = "mapping"]
                             ELSE users[id]]
             /\ session' = [session EXCEPT ![b] = Attach(@, old)]
             /\ UNCHANGED user_seq
        ELSE /\ users' = [id \in DOMAIN users \cup {new} |->
                             IF id = new THEN UserRow(w, "mapping", "")
                                         ELSE users[id]]
             /\ user_seq' = new
             /\ session' = [session EXCEPT ![b] = Attach(@, new)]
    /\ task' = [task EXCEPT ![s].pc = "done"]
    /\ UNCHANGED <<cookieVars, schedVars, batch, checkinVars, login_sessions, req, poll>>


\* Every channel id get_qrcode can produce.
ChannelIds ==
    {RemoteChannel(s) : s \in SessionIds} \cup {TimeChannel(t) : t \in Clock}

Terminal == {"success", "failed"}

\* Some earlier call on this channel id has read a terminal status.
Retired(ch) ==
    \E q \in PollIds : /\ poll[q].pc # "idle"
                       /\ poll[q].channel_id = ch
                       /\ poll[q].status \in Terminal

\* A get_login_status that retires whatever session it finds.
GetLoginStatusEager(p, ch) ==
    /\ poll[p].pc = "idle"
    /\ \A q \in PollIds : q < p => poll[q].pc # "idle"
    /\ ch \in DOMAIN login_sessions
    /\ LET b == login_sessions[ch] IN
        /\ poll' = [poll EXCEPT ![p].channel_id = ch,
                                ![p].session = b,
                                ![p].status = session[b].status,
                                ![p].pc = "closing"]
        /\ session' = [session EXCEPT ![b].closes = @ + 1]
    /\ UNCHANGED <<cookieVars, schedVars, batch, users, checkinVars, user_seq, login_sessions, req, task>>

\* get_login_status, called with any channel id, up to its return, its 404,
\* or the suspension in session.close().
GetLoginStatus(p, ch) ==
    /\ poll[p].pc = "idle"
    /\ \A q \in PollIds : q < p => poll[q].pc # "idle"
    /\ LET b == Get(login_sessions, ch)
           called == [poll[p] EXCEPT !.channel_id = ch, !.late = Retired(ch)]
       IN
        IF b = NONE
        THEN /\ poll' = [poll EXCEPT ![p] = [called EXCEPT !.pc = "not_found"]]
             /\ UNCHANGED session
        ELSE LET sess == session[b]
                 seen == [called EXCEPT !.session = b, !.status = sess.status]
             IN
              IF sess.status = "success"
              THEN /\ poll' = [poll EXCEPT ![p] =
                         [seen EXCEPT !.user_id = sess.db_user_id,
                                      !.wps_uid = sess.result.user_id,
                                      !.token_user = sess.db_user_id,
                                      !.pc = "closing"]]
                   /\ session' = [session EXCEPT ![b].closes = @ + 1]
              ELSE IF sess.status = "failed"
              THEN /\ poll' = [poll EXCEPT ![p] =
                         [seen EXCEPT !.error = sess.error,
                                      !.pc = "closing"]]
                   /\ session' = [session EXCEPT ![b].closes = @ + 1]
              ELSE /\ poll' = [poll EXCEPT ![p] = [seen EXCEPT !.pc = "returned"]]
                   /\ UNCHANGED session
    /\ UNCHANGED <<cookieVars, schedVars, batch, users, checkinVars, user_seq, login_sessions, req, task>>

\* session.close() ends in get_login_status. Whether Playwright tolerates
\* close / stop on a resource already released is not in this code: such a
\* call returns or raises. After a close() that returned,
\* del login_sessions[...] raises KeyError when the key is gone.
StatusRetire(p, tolerated) ==
    /\ poll[p].pc = "closing"
    /\ tolerated \/ session[poll[p].session].ended > 0
    /\ session' = [session EXCEPT ![poll[p].session] = Close(@)]
    /\ IF ~tolerated
       THEN /\ poll' = [poll EXCEPT ![p].pc = "close_error"]
            /\ UNCHANGED login_sessions
       ELSE IF poll[p].channel_id \in DOMAIN login_sessions
       THEN /\ login_sessions' = Del(login_sessions, poll[p].channel_id)
            /\ poll' = [poll EXCEPT ![p].pc = "returned"]
       ELSE /\ poll' = [poll EXCEPT ![p].pc = "key_error"]
            /\ UNCHANGED login_sessions
    /\ UNCHANGED <<cookieVars, schedVars, batch, users, checkinVars, user_seq, req, task>>

InitLogin ==
    /\ users = [id \in {} |-> NoUser]
    /\ user_seq = 0
    /\ InitLoginIdle
    /\ batch = IdleBatch
    /\ InitCookiesIdle
    /\ InitSchedIdle
    /\ checkin_logs = <<>>
    /\ now = 0
    /\ call = [i \in Inv |-> IdleCall]
    /\ hist = [i \in Inv |-> NoHist]

NextLogin ==
    \/ Tick
    \/ \E s \in SessionIds : StartLogin(s)
    \/ \E s \in SessionIds, remote \in BOOLEAN : StartOk(s, remote)
    \/ \E s \in SessionIds, held \in 0..ALL_RESOURCES : StartRaise(s, held)
    \/ \E s \in SessionIds : StartFailed(s)
    \/ \E s \in SessionIds : TaskStart(s)
    \/ \E s \in SessionIds, got \in ChannelReturns : Scanned(s, got)
    \/ \E s \in SessionIds : AddUserSelect(s)
    \/ \E s \in SessionIds, fault \in BOOLEAN : AddUserWrite(s, fault)
    \/ \E p \in PollIds, ch \in ChannelIds : GetLoginStatus(p, ch)
    \/ \E p \in PollIds, tolerated \in BOOLEAN : StatusRetire(p, tolerated)

SpecLogin == InitLogin /\ [][NextLogin]_vars


\* ========================================================= login claims

Registered == {login_sessions[c] : c \in DOMAIN login_sessions}
Closed(s) == session[s].closes > 0 /\ session[s].released = session[s].opened
ReadTerminal(p) == poll[p].pc # "idle" /\ poll[p].status \in Terminal
ReturnedTerminal(p) == poll[p].pc = "returned" /\ poll[p].status \in Terminal

\* C5: a status call that observed success or failed has, when it returns,
\* closed the session and removed it from the registry; every status call
\* made on that channel id after that terminal read ends in NotFound; and
\* no session's terminal result is returned by two calls.
C5_TerminalReadRetires ==
    /\ \A p \in PollIds :
           ReturnedTerminal(p) =>
               Closed(poll[p].session) /\ poll[p].session \notin Registered
    /\ \A p \in PollIds :
           poll[p].late /\ poll[p].pc # "idle" => poll[p].pc = "not_found"
    /\ \A p, q \in PollIds :
           /\ ReturnedTerminal(p)
           /\ ReturnedTerminal(q)
           /\ poll[p].session = poll[q].session
           => p = q

\* C6: of the status calls on one session that reached a terminal status,
\* one reads the terminal status and retires the session, with one close;
\* no other call reads it, and no call fails other than with NotFound.
C6_RetiredExactlyOnce ==
    /\ \A p, q \in PollIds :
           /\ ReadTerminal(p)
           /\ ReadTerminal(q)
           /\ poll[p].session = poll[q].session
           => p = q
    /\ \A s \in SessionIds : session[s].closes <= 1
    /\ \A p \in PollIds : poll[p].pc \notin {"key_error", "close_error"}

\* C7: a status call that reads success also reads the attached account id.
C7_SuccessCarriesAccountId ==
    \A p \in PollIds :
        poll[p].pc # "idle" /\ poll[p].status = "success"
            => poll[p].user_id # NONE

StatusSteps ==
    {<<"unborn", "init">>, <<"init", "waiting">>, <<"waiting", "success">>,
     <<"waiting", "failed">>}

\* C8: a session's status changes only init to waiting, waiting to success
\* or waiting to failed (after its construction as init), so a terminal
\* status never changes again.
C8_StatusStepsOnly ==
    [][\A s \in SessionIds :
           session'[s].status # session[s].status
               => <<session[s].status, session'[s].status>> \in StatusSteps]_vars

\* C9: when session.start() fails inside start_login, the resources the
\* session took are released, the request ends in the error response, the
\* session is in no registry entry and no driving task exists for it.
C9_FailedStartLeavesNothing ==
    \A s \in SessionIds :
        req[s].pc = "failed" =>
            /\ Closed(s)
            /\ s \notin Registered
            /\ req[s].channel_id = NoChannel
            /\ task[s] = NoTask
            /\ session[s].status = "init"

C9_Witness ==
    \E s \in SessionIds :
        /\ req[s].pc = "failed"
        /\ session[s].opened = ALL_RESOURCES
        /\ Registered # {}

\* C10: when the driving task of a session that entered waiting has ended,
\* the session is in success or failed, and a failed session carries an
\* error message.
C10_TaskEndsTerminal ==
    \A s \in SessionIds :
        task[s].pc = "done" =>
            /\ session[s].status \in Terminal
            /\ session[s].status = "failed" => session[s].error # NULL


HasAuth(got) == ~got.raised /\ got.jar.names \cap AUTH_COOKIES # {}

\* C11: a session's status becomes success only in a step in which the
\* login channel returned a credential blob with one of wps_sid, rtk,
\* kso_sid; a returned blob without any of them, empty or not, leaves the
\* driven session failed.
C11_SuccessNeedsAuthToken ==
    [][/\ \A b \in SessionIds :
              session'[b].status = "success" /\ session[b].status # "success"
                  => \E s \in SessionIds :
                         /\ task[s].pc = "waiting"
                         /\ task[s].session = b
                         /\ task'[s].pc = "select"
                         /\ HasAuth(task'[s].got)
       /\ \A s \in SessionIds :
              /\ task[s].pc = "waiting"
              /\ task'[s].pc # "waiting"
              /\ ~HasAuth(task'[s].got)
              => /\ session'[task[s].session].status = "failed"
                 /\ session'[task[s].session].error # NULL]_vars

C11_Witness ==
    /\ \E s \in SessionIds :
           /\ session[s].status = "success"
           /\ task[s].got = Returned(CookieJar({"kso_sid", "uid"}, "x"))
    /\ \E s \in SessionIds :
           /\ session[s].status = "failed"
           /\ task[s].got = Returned(CookieJar({"csrf"}, ""))


\* C12: close() is idempotent: once a close() has released a session's
\* resources, a further close() on that session releases nothing again and
\* does not fail.
C12_CloseIdempotent ==
    /\ \A s \in SessionIds : session[s].reissued = 0
    /\ \A p \in PollIds : poll[p].pc # "close_error"


\* C13: a status call for a channel id that is not in the registry ends in
\* NotFound, and one that finds a session in init or waiting returns that
\* status; neither closes a session nor changes the registry, which a
\* status call changes only after it read a terminal status.
C13_StatusReadOnlyUntilTerminal ==
    [][\A p \in PollIds :
           LET b == Get(login_sessions, poll'[p].channel_id)
               called == poll[p].pc = "idle" /\ poll'[p].pc # "idle"
           IN
            /\ (called /\ b = NONE)
                   => (/\ poll'[p].pc = "not_found"
                       /\ UNCHANGED <<login_sessions, session>>)
            /\ (called /\ b # NONE /\ session[b].status \notin Terminal)
                   => (/\ poll'[p].pc = "returned"
                       /\ poll'[p].status = session[b].status
                       /\ UNCHANGED <<login_sessions, session>>)
            /\ (poll'[p] # poll[p] /\ login_sessions' # login_sessions)
                   => poll[p].status \in Terminal]_vars

C13_Witness ==
    \E p, q \in PollIds :
        /\ poll[p].pc = "returned" /\ poll[p].status = "waiting"
        /\ poll[q].pc = "not_found"
        /\ Registered # {}


\* ============================================================ batch actions
\* One do_checkin_all run over a users table of MaxAccounts rows; the k-th
\* do_checkin_for_user call of the run uses invocation slot k.

AccountIds == 1..MaxAccounts

AccountRows(id) ==
    {[row EXCEPT !.is_active = a] : row \in UserRows(id), a \in BOOLEAN}

\* SELECT * FROM users, rows in id order.
get_all_users ==
    CHOOSE q \in [1..Cardinality(DOMAIN users) -> DOMAIN users] :
        \A a, b \in 1..Cardinality(DOMAIN users) : a < b => q[a] < q[b]

\* SELECT * FROM users WHERE is_active = 1, rows in id order.
get_all_active_users ==
    LET active == {id \in DOMAIN users : users[id].is_active} IN
    CHOOSE q \in [1..Cardinality(active) -> active] :
        \A a, b \in 1..Cardinality(active) : a < b => q[a] < q[b]

\* do_checkin_for_user(user.id) up to its first await.
Entered(uid) ==
    [IdleCall EXCEPT !.pc = "get_user", !.user_id = uid,
                     !.max_retries = DEFAULT_MAX_RETRIES]

\* do_checkin_all (a timer's action, or manual_checkin_all's background
\* task) up to await db.get_all_active_users().
Batch ==
    /\ batch.pc = "idle"
    /\ batch' = [batch EXCEPT !.pc = "loading"]
    /\ UNCHANGED <<users, checkin_logs, now, call, hist, loginVars, cookieVars, schedVars>>

\* The for statement: the next account's do_checkin_for_user is entered, or
\* the listing is exhausted.
NextAccount(b) ==
    IF b.idx < Len(b.listing)
    THEN [b EXCEPT !.idx = b.idx + 1, !.pc = "single"]
    ELSE [b EXCEPT !.pc = "done"]

\* The listing arrives; the counters are zeroed and the loop is entered.
BatchLoaded ==
    /\ batch.pc = "loading"
    /\ LET b == NextAccount([batch EXCEPT !.listing = get_all_active_users]) IN
        /\ batch' = b
        /\ call' = IF b.pc = "single"
                   THEN [call EXCEPT ![b.idx] = Entered(b.listing[b.idx])]
                   ELSE call
    /\ UNCHANGED <<users, checkin_logs, now, hist, loginVars, cookieVars, schedVars>>

\* A loop body that counts only what do_checkin_for_user returned.
CountUncaught(b, c) ==
    IF c.pc = "raised"
    THEN [b EXCEPT !.pc = "sleep"]
    ELSE [b EXCEPT !.pc = "sleep",
                   !.success_count = IF c.ret THEN @ + 1 ELSE @,
                   !.fail_count = IF c.ret THEN @ ELSE @ + 1]

\* A loop that gives the run up at the first call that did not return True.
CountBreaking(b, c) ==
    IF c.pc = "done" /\ c.ret
    THEN [b EXCEPT !.pc = "sleep", !.success_count = @ + 1]
    ELSE [b EXCEPT !.pc = "done", !.fail_count = @ + 1]

\* The loop body after do_checkin_for_user returned or raised.
Count(b, c) ==
    [b EXCEPT !.pc = "sleep",
              !.success_count = IF c.pc = "done" /\ c.ret THEN @ + 1 ELSE @,
              !.fail_count = IF c.pc = "done" /\ c.ret THEN @ ELSE @ + 1]

\* A loop that does not await do_checkin_for_user before going on.
BatchCountUnawaited ==
    /\ batch.pc = "single"
    /\ batch' = Count(batch, call[batch.idx])
    /\ UNCHANGED <<users, checkin_logs, now, call, hist, loginVars, cookieVars, schedVars>>

BatchCount ==
    /\ batch.pc = "single"
    /\ call[batch.idx].pc \in {"done", "raised"}
    /\ batch' = Count(batch, call[batch.idx])
    /\ UNCHANGED <<users, checkin_logs, now, call, hist, loginVars, cookieVars, schedVars>>

\* await asyncio.sleep(3) ends; the loop goes on.
BatchDelay ==
    /\ batch.pc = "sleep"
    /\ LET b == NextAccount([batch EXCEPT !.delays = @ + 1]) IN
        /\ batch' = b
        /\ call' = IF b.pc = "single"
                   THEN [call EXCEPT ![b.idx] = Entered(b.listing[b.idx])]
                   ELSE call
    /\ UNCHANGED <<users, checkin_logs, now, hist, loginVars, cookieVars, schedVars>>

\* The exception leaves do_checkin_for_user.
Raise(c) == [Return(c, FALSE) EXCEPT !.pc = "raised"]

\* An awaited store call of do_checkin_for_user raises. get_user and the
\* add_checkin_log calls of the failure exits are outside the try block; the
\* two store calls of the success branch are inside it, where the except
\* branch takes the exception for a failed attempt.
StoreFault(i) ==
    /\ call[i].pc \in {"get_user", "log", "update_last"}
    /\ call' = [call EXCEPT ![i] =
           IF call[i].pc = "get_user" \/ call[i].status = "failed"
           THEN Raise(call[i])
           ELSE LoopHead([call[i] EXCEPT !.last_error = "store_fault",
                                         !.attempt = @ + 1,
                                         !.status = NULL,
                                         !.message = PlainMessage(NULL)])]
    /\ UNCHANGED <<users, checkin_logs, now, hist, loginVars, cookieVars, batch, schedVars>>

InitBatch ==
    /\ users \in {u \in [AccountIds -> UNION {AccountRows(id) : id \in AccountIds}] :
                      \A id \in AccountIds : u[id] \in AccountRows(id)}
    /\ user_seq = MaxAccounts
    /\ InitLoginIdle
    /\ batch = IdleBatch
    /\ InitCookiesIdle
    /\ InitSchedIdle
    /\ checkin_logs = <<>>
    /\ now = 0
    /\ call = [i \in AccountIds |-> IdleCall]
    /\ hist = [i \in AccountIds |-> NoHist]

NextBatch ==
    \/ Batch
    \/ BatchLoaded
    \/ BatchCount
    \/ BatchDelay
    \/ \E i \in AccountIds : StoreFault(i)
    \/ \E i \in AccountIds : GetUser(i)
    \/ \E i \in AccountIds : RetrySleep(i)
    \/ \E i \in AccountIds : Execute(i)
    \/ \E i \in AccountIds : AddCheckinLog(i)
    \/ \E i \in AccountIds : UpdateLastCheckin(i)
    \/ \E i \in AccountIds : Notify(i)

SpecBatch == InitBatch /\ [][NextBatch]_vars


\* ============================================================ batch claims

Loaded == batch.pc \notin {"idle", "loading"}
Entries == 1..Len(batch.listing)
Ended(k) == call[k].pc \in {"done", "raised"}
InFlight(k) == call[k].pc \notin {"idle", "done", "raised"}

\* C14: a batch run processes the enabled accounts it loaded one at a time
\* in listing order, each once: the k-th do_checkin_for_user call is for the
\* k-th account of the listing, begins only when all earlier calls have
\* ended and k - 1 inter-account delays have elapsed, and a finished run has
\* called each listed account.
C14_OneAtATimeInListingOrder ==
    Loaded =>
        /\ \A a, b \in Entries : a # b => batch.listing[a] # batch.listing[b]
        /\ \A id \in DOMAIN users :
               users[id].is_active <=> \E k \in Entries : batch.listing[k] = id
        /\ \A k \in AccountIds :
               call[k].pc # "idle" =>
                   /\ k \in Entries
                   /\ call[k].user_id = batch.listing[k]
                   /\ batch.delays >= k - 1
                   /\ \A j \in AccountIds : j < k => Ended(j)
        /\ Cardinality({k \in AccountIds : InFlight(k)}) <= 1
        /\ batch.pc = "done" => \A k \in Entries : Ended(k)

C14_Witness ==
    /\ Len(batch.listing) = 2
    /\ hist[1].submits > 0
    /\ call[2].pc = "execute"


Counted(k) ==
    k \in Entries /\ (k < batch.idx \/ (k = batch.idx /\ batch.pc \in {"sleep", "done"}))

\* C15: a do_checkin_for_user call that raises is counted as a failure and
\* the run goes on: the failure count is the number of processed accounts
\* whose call raised or returned False, the success count the number whose
\* call returned True, and a finished run has called every account of the
\* listing and its two counts add up to the length of the listing.
C15_FaultCountedBatchGoesOn ==
    Loaded =>
        /\ batch.fail_count =
               Cardinality({k \in Entries : Counted(k) /\ ~(call[k].pc = "done" /\ call[k].ret)})
        /\ batch.success_count =
               Cardinality({k \in Entries : Counted(k) /\ call[k].pc = "done" /\ call[k].ret})
        /\ batch.pc = "done" =>
               /\ \A k \in Entries : Ended(k)
               /\ batch.success_count + batch.fail_count = Len(batch.listing)

C15_Witness ==
    /\ batch.pc = "done"
    /\ call[1].pc = "raised"
    /\ call[2].pc = "done" /\ call[2].ret
    /\ batch.fail_count = 1


\* C16: an account that is disabled when the run loads its listing gets,
\* from that run, no do_checkin_for_user call (hence no submission and no
\* notification) and no check-in record, whatever its credential blob and
\* content are.
C16_DisabledAccountUntouched ==
    Loaded =>
        \A id \in DOMAIN users :
            ~users[id].is_active =>
                /\ \A k \in AccountIds : call[k].pc # "idle" => call[k].user_id # id
                /\ \A n \in 1..Len(checkin_logs) : checkin_logs[n].user_id # id

C16_Witness ==
    /\ batch.pc = "done"
    /\ Len(checkin_logs) > 0
    /\ \E id \in DOMAIN users :
           /\ ~users[id].is_active
           /\ users[id].cookies = "mapping"
           /\ users[id].input_name = "content"

\* ===================================================================
\* The scheduler: scheduler.py, the schedule_configs part of database.py
\* and the /api/schedules handlers of app.py.
\*
\* A store call runs its SQL statement on the connection's thread and the
\* calling coroutine goes on at a later turn of the event loop, so the
\* statement and the code after the await are separate steps.  A handler
\* reads nothing shared before its first statement, so its start is part of
\* the step of that statement (or of the step that rejects the request).
\* ===================================================================

HOUR_ERROR == "hour"        \* database.py:462 and :488, the ValueError text
MINUTE_ERROR == "minute"    \* database.py:464 and :490
EMPTY_ERROR == "empty"      \* app.py:612, nothing to update

\* database.py:461 and :487.
ValidHour(hour) == 0 <= hour /\ hour <= MAX_HOUR

\* database.py:463 and :489.
ValidMinute(minute) == 0 <= minute /\ minute <= MAX_MINUTE

\* What a store call did: the table and the sequence after it, and the text
\* of the ValueError it raised, if any.
Stored(table, seq) == [raised |-> NULL, table |-> table, seq |-> seq]

ValueError(text) ==
    [raised |-> text, table |-> schedule_configs, seq |-> schedule_seq]

add_schedule_unvalidated(name, hour, minute) ==
    Stored(schedule_configs \cup
               {ScheduleConfig(schedule_seq + 1, name, hour, minute, TRUE)},
           schedule_seq + 1)

\* database.py add_schedule: the checks, then the INSERT; is_enabled takes
\* the column default 1.
add_schedule(name, hour, minute) ==
    IF ~ValidHour(hour) THEN ValueError(HOUR_ERROR)
    ELSE IF ~ValidMinute(minute) THEN ValueError(MINUTE_ERROR)
    ELSE Stored(schedule_configs \cup
                    {ScheduleConfig(schedule_seq + 1, name, hour, minute, TRUE)},
                schedule_seq + 1)

\* UPDATE schedule_configs SET key = ?, ... on one row.
SetClause(row, kwargs) ==
    [f \in DOMAIN row |-> IF f \in DOMAIN kwargs THEN kwargs[f] ELSE row[f]]

\* database.py update_schedule: False for no kwargs, the checks on the given
\* fields, then the UPDATE of the row with this id, if there is one.
update_schedule(schedule_id, kwargs) ==
    IF DOMAIN kwargs = {} THEN Stored(schedule_configs, schedule_seq)
    ELSE IF "hour" \in DOMAIN kwargs /\ ~ValidHour(kwargs["hour"])
        THEN ValueError(HOUR_ERROR)
    ELSE IF "minute" \in DOMAIN kwargs /\ ~ValidMinute(kwargs["minute"])
        THEN ValueError(MINUTE_ERROR)
    ELSE Stored({IF row.id = schedule_id THEN SetClause(row, kwargs) ELSE row :
                     row \in schedule_configs},
                schedule_seq)

\* database.py delete_schedule: the DELETE.
delete_schedule(schedule_id) ==
    Stored({row \in schedule_configs : row.id # schedule_id}, schedule_seq)

\* ORDER BY hour, minute; rows of equal time come in id order.
Before(a, b) ==
    \/ a.hour < b.hour
    \/ a.hour = b.hour /\ a.minute < b.minute
    \/ a.hour = b.hour /\ a.minute = b.minute /\ a.id <= b.id

RECURSIVE OrderBy(_)
OrderBy(rows) ==
    IF rows = {} THEN <<>>
    ELSE LET first == CHOOSE r \in rows : \A x \in rows : Before(r, x)
         IN  <<first>> \o OrderBy(rows \ {first})

get_schedules_unfiltered == OrderBy(schedule_configs)

\* database.py get_enabled_schedules.
get_enabled_schedules == OrderBy({row \in schedule_configs : row.is_enabled})

\* scheduler.py:47, f"checkin_{schedule.id}".
JobId(schedule) == <<"checkin_", schedule.id>>

\* scheduler.py:39, job.id.startswith('checkin_').
Owned(job) == job.id[1] = "checkin_"

\* scheduler.py:50.
CronTrigger(hour, minute) == [hour |-> hour, minute |-> minute]

\* The job scheduler.py:53-59 hands to the scheduler.
Job(schedule) ==
    [id |-> JobId(schedule), func |-> "do_checkin_all",
     trigger |-> CronTrigger(schedule.hour, schedule.minute),
     name |-> schedule.name]

\* A job added without id= gets an id of the scheduler's own making.
add_job_unnamed(js, schedule) ==
    js \cup {[Job(schedule) EXCEPT !.id = <<"uuid", Cardinality(js) + 1>>]}

\* scheduler.add_job(..., id=job_id, replace_existing=True).
add_job(js, schedule) ==
    {j \in js : j.id # JobId(schedule)} \cup {Job(schedule)}

\* scheduler.py:46-61, the loop over the schedules read.
RECURSIVE AddJobs(_, _)
AddJobs(js, schedules) ==
    IF schedules = <<>> THEN js
    ELSE AddJobs(add_job(js, Head(schedules)), Tail(schedules))

\* The request that raised HTTPException(400): nothing else happened.
Rejected(kind, text) == Response(kind, BAD_REQUEST, text, <<>>)

AwaitRefreshUnparked(kind, trail) == IdleOp

\* The handler whose store call returned: await refresh_scheduler().
AwaitRefresh(kind, trail) ==
    [IdleOp EXCEPT !.pc = "setup", !.kind = kind, !.trail = trail]

\* A request takes the first slot that holds no operation in progress.
Free(o) == op[o].pc = "idle" /\ \A q \in 1..(o - 1) : op[q].pc # "idle"

\* An operation between the first and the last step of its
\* setup_scheduler_from_db.
Reconciling(o) == op[o].pc \in {"read", "install"}

Enabled(table) == {row \in table : row.is_enabled}

\* History kept for the claims about an undisturbed reconcile: a write that
\* changes the enabled triggers disturbs every reconcile in progress and
\* ends the standing of the timers the last one left.
Disturbed(table) ==
    IF Enabled(table) = Enabled(schedule_configs) THEN quiet ELSE NoQuiet

\* app.py create_schedule up to its INSERT or its HTTPException.
create_schedule(o, name, hour, minute) ==
    /\ running
    /\ Free(o)
    /\ LET r == add_schedule(name, hour, minute) IN
         /\ r.seq <= MaxTriggers
         /\ schedule_configs' = r.table
         /\ schedule_seq' = r.seq
         /\ quiet' = Disturbed(r.table)
         /\ IF r.raised # NULL
                THEN /\ response' = Rejected("create", r.raised)
                     /\ UNCHANGED op
                ELSE /\ op' = [op EXCEPT ![o] = AwaitRefresh("refresh", <<"write">>)]
                     /\ response' = NoResponse
    /\ UNCHANGED <<running, jobs, users, checkinVars, loginVars, cookieVars, batch>>

\* app.py update_schedule (the handler) up to its UPDATE or its
\* HTTPException.
UpdateSchedule(o, schedule_id, update_data) ==
    /\ running
    /\ Free(o)
    /\ IF DOMAIN update_data = {}
           THEN /\ response' = Rejected("update", EMPTY_ERROR)
                /\ UNCHANGED <<schedule_configs, quiet, op>>
           ELSE LET r == update_schedule(schedule_id, update_data) IN
                  /\ schedule_configs' = r.table
                  /\ quiet' = Disturbed(r.table)
                  /\ IF r.raised # NULL
                         THEN /\ response' = Rejected("update", r.raised)
                              /\ UNCHANGED op
                         ELSE /\ op' = [op EXCEPT ![o] =
                                           AwaitRefresh("refresh", <<"write">>)]
                              /\ response' = NoResponse
    /\ UNCHANGED <<schedule_seq, running, jobs, users, checkinVars, loginVars, cookieVars,
                   batch>>

\* app.py delete_schedule up to its DELETE.
DeleteSchedule(o, schedule_id) ==
    /\ running
    /\ Free(o)
    /\ LET r == delete_schedule(schedule_id) IN
         /\ schedule_configs' = r.table
         /\ quiet' = Disturbed(r.table)
    /\ op' = [op EXCEPT ![o] = AwaitRefresh("refresh", <<"write">>)]
    /\ response' = NoResponse
    /\ UNCHANGED <<schedule_seq, running, jobs, users, checkinVars,
                   loginVars, cookieVars, batch>>

\* app.py toggle_schedule up to the SELECT of database.py toggle_schedule:
\* no row is False at once, without a write.
ToggleSelect(o, schedule_id) ==
    /\ running
    /\ Free(o)
    /\ LET found == {row \in schedule_configs : row.id = schedule_id} IN
         op' = [op EXCEPT ![o] =
                   IF found = {} THEN AwaitRefresh("refresh", <<>>)
                   ELSE [IdleOp EXCEPT
                            !.pc = "toggle_update", !.kind = "toggle",
                            !.id = schedule_id,
                            !.new_status =
                                ~(CHOOSE row \in found : TRUE).is_enabled]]
    /\ response' = NoResponse
    /\ UNCHANGED <<schedule_configs, schedule_seq, running, jobs, quiet, users, checkinVars, loginVars, cookieVars, batch>>

\* database.py toggle_schedule: the UPDATE with the status computed from
\* the row read.
ToggleUpdate(o) ==
    /\ op[o].pc = "toggle_update"
    /\ LET r == update_schedule(op[o].id,
                                "is_enabled" :> op[o].new_status) IN
         /\ schedule_configs' = r.table
         /\ quiet' = Disturbed(r.table)
    /\ op' = [op EXCEPT ![o] = AwaitRefresh("refresh", <<"write">>)]
    /\ response' = NoResponse
    /\ UNCHANGED <<schedule_seq, running, jobs, users, checkinVars,
                   loginVars, cookieVars, batch>>

\* scheduler.py start_scheduler: if the scheduler is not running it starts
\* and the task that runs setup_scheduler_from_db is created; if it is
\* running the call does nothing.
start_scheduler(o) ==
    /\ Free(o)
    /\ IF running
           THEN UNCHANGED <<running, op>>
           ELSE /\ running' = TRUE
                /\ op' = [op EXCEPT ![o] = AwaitRefresh("setup", <<>>)]
    /\ response' = NoResponse
    /\ UNCHANGED <<schedule_configs, schedule_seq, jobs, quiet, users,
                   checkinVars, loginVars, cookieVars, batch>>

\* scheduler.py:38-41: every job whose id starts with checkin_ is removed,
\* up to the await of get_enabled_schedules.
Remove(o) ==
    /\ op[o].pc = "setup"
    /\ jobs' = {j \in jobs : ~Owned(j)}
    /\ op' = [op EXCEPT ![o].pc = "read", ![o].trail = Append(@, "begin")]
    /\ quiet' = IF \E q \in OpIds \ {o} : Reconciling(q) THEN NoQuiet
                ELSE [quiet EXCEPT !.alone = {o}]
    /\ response' = NoResponse
    /\ UNCHANGED <<schedule_configs, schedule_seq, running, users,
                   checkinVars, loginVars, cookieVars, batch>>

\* scheduler.py:44: the SELECT of get_enabled_schedules.
Read(o) ==
    /\ op[o].pc = "read"
    /\ op' = [op EXCEPT ![o].pc = "install",
                        ![o].schedules = get_enabled_schedules]
    /\ response' = NoResponse
    /\ UNCHANGED <<schedule_configs, schedule_seq, running, jobs, quiet, users, checkinVars, loginVars, cookieVars, batch>>

\* scheduler.py:46-63: one add_job per schedule read; refresh_scheduler and
\* the handler then return without another await.
Install(o) ==
    /\ op[o].pc = "install"
    /\ jobs' = AddJobs(jobs, op[o].schedules)
    /\ op' = [op EXCEPT ![o] = IdleOp]
    /\ response' = Response(op[o].kind,
                            IF op[o].kind = "setup" THEN NONE ELSE OK,
                            NULL, Append(op[o].trail, "end"))
    /\ quiet' = IF o \in quiet.alone
                THEN [alone |-> {}, valid |-> TRUE, again |-> quiet.valid,
                      timers |-> jobs']
                ELSE NoQuiet
    /\ UNCHANGED <<schedule_configs, schedule_seq, running, users, checkinVars,
                   loginVars, cookieVars, batch>>

\* After database.py init() on an empty table, before start_scheduler.
InitSched ==
    /\ schedule_configs = {DefaultSchedule}
    /\ schedule_seq = 1
    /\ running = FALSE
    /\ jobs = {}
    /\ op = [o \in OpIds |-> IdleOp]
    /\ response = NoResponse
    /\ quiet = NoQuiet
    /\ users = [id \in {} |-> NoUser]
    /\ user_seq = 0
    /\ InitLoginIdle
    /\ batch = IdleBatch
    /\ InitCookiesIdle
    /\ checkin_logs = <<>>
    /\ now = 0
    /\ call = [i \in Inv |-> IdleCall]
    /\ hist = [i \in Inv |-> NoHist]

NextSched ==
    \/ \E o \in OpIds : start_scheduler(o)
    \/ \E o \in OpIds, name \in Names, hour \in HourArgs, minute \in MinuteArgs :
           create_schedule(o, name, hour, minute)
    \/ \E o \in OpIds, schedule_id \in TriggerIds, update_data \in UpdateData :
           UpdateSchedule(o, schedule_id, update_data)
    \/ \E o \in OpIds, schedule_id \in TriggerIds : DeleteSchedule(o, schedule_id)
    \/ \E o \in OpIds, schedule_id \in TriggerIds : ToggleSelect(o, schedule_id)
    \/ \E o \in OpIds : ToggleUpdate(o)
    \/ \E o \in OpIds : Remove(o)
    \/ \E o \in OpIds : Read(o)
    \/ \E o \in OpIds : Install(o)

SpecSched == InitSched /\ [][NextSched]_vars

\* scheduler.py stop_scheduler: a running scheduler is shut down, a stopped
\* one is left alone.  Whether shutdown() keeps the jobs of the job store
\* is the library's choice.
stop_scheduler(kept) ==
    /\ IF running
           THEN /\ running' = FALSE
                /\ jobs' = IF kept THEN jobs ELSE {}
           ELSE UNCHANGED <<running, jobs>>
    /\ response' = NoResponse
    /\ UNCHANGED <<schedule_configs, schedule_seq, op, quiet, users,
                   checkinVars, loginVars, cookieVars, batch>>

\* The scheduler with start_scheduler and stop_scheduler called at any
\* moment, not only once each by lifespan.
NextLife ==
    \/ NextSched
    \/ \E kept \in BOOLEAN : stop_scheduler(kept)

SpecLife == InitSched /\ [][NextLife]_vars

\* ------------------------------------------------- claims on the scheduler

\* The step that ends the reconcile of operation o.
ReconcileEnds(o) == op[o].pc = "install" /\ op'[o].pc = "idle"

\* The timers of table: for every enabled trigger exactly one job, under the
\* id made of the trigger's id, with the trigger's hour and minute and
\* do_checkin_all as its function, and no other owned job.
TimersOf(js, table) ==
    /\ \A row \in table : row.is_enabled =>
           /\ Cardinality({j \in js : j.id = <<"checkin_", row.id>>}) = 1
           /\ \A j \in js : j.id = <<"checkin_", row.id>> =>
                  /\ j.trigger = [hour |-> row.hour, minute |-> row.minute]
                  /\ j.func = "do_checkin_all"
    /\ \A j \in js : j.id[1] = "checkin_" =>
           \E row \in table : row.is_enabled /\ j.id = <<"checkin_", row.id>>

\* C17: when a reconcile ends that ran with no other reconcile in progress
\* and no change of the enabled triggers, the owned jobs are exactly one
\* per enabled trigger, under that trigger's id, with its current hour and
\* minute and the batch run as action; no owned job is left for a disabled
\* or deleted trigger.
C17_ReconcileInstallsEnabled ==
    [][\A o \in OpIds :
          (ReconcileEnds(o) /\ o \in quiet.alone) =>
              TimersOf(jobs', schedule_configs')]_vars

\* An undisturbed reconcile has just ended with one trigger enabled and
\* another one disabled.
C17_Witness ==
    /\ response.trail = <<"write", "begin", "end">>
    /\ quiet.valid
    /\ jobs # {}
    /\ \E row \in schedule_configs : row.is_enabled
    /\ \E row \in schedule_configs : ~row.is_enabled

\* C18: a reconcile that follows an undisturbed reconcile, with no change of
\* the enabled triggers and no other reconcile from the start of the first
\* to the end of the second, leaves the set of jobs the first one left.
C18_ReconcileIdempotent ==
    [][\A o \in OpIds :
          (ReconcileEnds(o) /\ o \in quiet.alone /\ quiet.valid) =>
              jobs' = quiet.timers]_vars

\* Two reconciles in a row have ended and left jobs.
C18_Witness ==
    /\ quiet.again
    /\ quiet.valid
    /\ jobs # {}
    /\ jobs = quiet.timers

\* C19: a step that changes the stored triggers leaves its operation parked
\* before its reconcile, with the write on its trail and no answer given;
\* from there the operation only begins its reconcile, reads, and ends it,
\* and the answer 200 is given by the step that ends the reconcile, so the
\* reconcile runs after the write and before the return.  A request
\* answered 400 has changed neither the stored triggers nor the jobs and
\* has started no reconcile.
C19_ReconcileBetweenWriteAndReturn ==
    [][/\ (schedule_configs' # schedule_configs) =>
              (/\ response' = NoResponse
               /\ \E o \in OpIds :
                     /\ op[o].pc \in {"idle", "toggle_update"}
                     /\ op'[o].pc = "setup"
                     /\ op'[o].trail = <<"write">>)
       /\ \A o \in OpIds :
              /\ (op[o].pc = "setup" /\ op'[o] # op[o]) =>
                     (/\ op'[o].pc = "read"
                      /\ op'[o].trail = Append(op[o].trail, "begin"))
              /\ (op[o].pc = "read" /\ op'[o] # op[o]) =>
                     (/\ op'[o].pc = "install"
                      /\ op'[o].trail = op[o].trail)
              /\ (op[o].pc = "install" /\ op'[o] # op[o]) =>
                     (/\ op'[o].pc = "idle"
                      /\ response'.trail = Append(op[o].trail, "end"))
       /\ (response'.status = OK) =>
              (\E o \in OpIds : ReconcileEnds(o) /\ op[o].kind = "refresh")
       /\ (response'.status = BAD_REQUEST) =>
              (/\ response'.trail = <<>>
               /\ UNCHANGED <<schedule_configs, jobs, op>>)]_vars

\* A request that changed the stored triggers has just been answered 200,
\* with the write, the begin and the end of its reconcile on its trail.
C19_Witness ==
    /\ response.status = OK
    /\ response.trail = <<"write", "begin", "end">>
    /\ schedule_configs # {DefaultSchedule}

\* The arguments database.py refuses.
BadHour(hour) == hour \notin 0..23

BadMinute(minute) == minute \notin 0..59

\* The create arguments and the update data with a refused hour or minute.
BadTimes ==
    {t \in HourArgs \X MinuteArgs : BadHour(t[1]) \/ BadMinute(t[2])}

BadUpdateData ==
    {d \in UpdateData : \/ "hour" \in DOMAIN d /\ BadHour(d["hour"])
                        \/ "minute" \in DOMAIN d /\ BadMinute(d["minute"])}

\* The step answered 400 with the text of a ValueError and changed neither
\* the stored triggers nor the jobs.
RefusedUnchanged ==
    /\ response'.status = BAD_REQUEST
    /\ response'.detail \in {HOUR_ERROR, MINUTE_ERROR}
    /\ UNCHANGED <<schedule_configs, jobs>>

\* C20: a create or an update with an hour outside 0..23 or a minute
\* outside 0..59 is answered 400 with the text of the ValueError and
\* changes neither the stored triggers nor the jobs (a step that is not
\* such a refusal is not the step of a create or update with such an hour
\* or minute); every stored trigger has its hour in 0..23 and its minute in
\* 0..59 at all times.
C20_BadTimeRejected ==
    /\ [](\A row \in schedule_configs :
              row.hour \in 0..23 /\ row.minute \in 0..59)
    /\ [][\/ RefusedUnchanged
          \/ /\ ~\E o \in OpIds, name \in Names, t \in BadTimes :
                    create_schedule(o, name, t[1], t[2])
             /\ ~\E o \in OpIds, schedule_id \in TriggerIds,
                    d \in BadUpdateData :
                    UpdateSchedule(o, schedule_id, d)]_vars

\* A create has just been refused for its hour while jobs are installed.
C20_Witness ==
    /\ response.status = BAD_REQUEST
    /\ response.kind = "create"
    /\ response.detail = HOUR_ERROR
    /\ jobs # {}

\* --------------------------------------------- claims on start and stop

\* What start_scheduler and stop_scheduler can touch.
engine == <<schedule_configs, schedule_seq, running, jobs, op>>

\* C21: the setup task is created only by the step that turns a stopped
\* scheduler into a running one, and that step touches no job, so the
\* initial reconcile begins after the scheduler runs; when the reconcile of
\* the setup task ends and no other operation is in progress, the jobs are
\* those of the enabled triggers;
\* start_scheduler on a running scheduler and stop_scheduler on a stopped
\* one change nothing.
C21_StartThenReconcile ==
    [][/\ \A o \in OpIds :
              (op'[o].kind = "setup" /\ op[o].kind # "setup") =>
                  (/\ ~running
                   /\ running'
                   /\ op'[o].pc = "setup"
                   /\ UNCHANGED jobs)
       /\ \A o \in OpIds :
              (/\ ReconcileEnds(o)
               /\ op[o].kind = "setup"
               /\ \A q \in OpIds : op'[q].pc = "idle") =>
                  TimersOf(jobs', schedule_configs')
       /\ (running /\ \E o \in OpIds : start_scheduler(o)) =>
              UNCHANGED engine
       /\ (~running /\ \E kept \in BOOLEAN : stop_scheduler(kept)) =>
              UNCHANGED engine]_vars


\* ------------------------------------------------- convert_cookies_to_playwright
\* A key of a dict info, or the default when the key is absent (dict.get).
InfoGet(field, default) == IF field = MISSING THEN default ELSE field

\* One entry of the dict form as a Playwright cookie (checkin.py:239-255):
\* a dict info gives its keys or the defaults, any other info its text as
\* the value, under domain .wps.cn and path "/".
Cookie(entry) ==
    IF entry.info.kind = "dict"
        THEN [name |-> entry.name,
              value |-> InfoGet(entry.info.value, ""),
              domain |-> InfoGet(entry.info.domain, WPS_DOMAIN),
              path |-> InfoGet(entry.info.path, "/")]
        ELSE [name |-> entry.name, value |-> entry.info.value,
              domain |-> WPS_DOMAIN, path |-> "/"]

RECURSIVE kdocs_cookies_all(_)
kdocs_cookies_all(result) ==
    IF result = <<>>
        THEN <<>>
        ELSE <<[Head(result) EXCEPT !.domain = KDOCS_DOMAIN]>>
                 \o kdocs_cookies_all(Tail(result))

\* The copies under .kdocs.cn of the cookies of domain .wps.cn, in their
\* order (checkin.py:258-264).
RECURSIVE kdocs_cookies(_)
kdocs_cookies(result) ==
    IF result = <<>>
        THEN <<>>
        ELSE (IF Head(result).domain = WPS_DOMAIN
                  THEN <<[Head(result) EXCEPT !.domain = KDOCS_DOMAIN]>>
                  ELSE <<>>)
                 \o kdocs_cookies(Tail(result))

\* checkin.py:210-267: a list is returned as it is; a dict is converted
\* entry by entry and the .kdocs.cn copies are appended.
convert_cookies_to_playwright(value) ==
    IF value.form = "list"
        THEN value.items
        ELSE LET result == [i \in DOMAIN value.items |-> Cookie(value.items[i])]
             IN  result \o kdocs_cookies(result)

\* execute_checkin converts the parsed value it was given, in one of its
\* two forms, and hands the list to add_cookies (checkin.py:175-176).
Normalize(form) ==
    /\ form \notin converted
    /\ form = "list" => Flat(parsed)
    /\ playwright_cookies' =
           [playwright_cookies EXCEPT ![form] =
               convert_cookies_to_playwright(
                   IF form = "dict" THEN DictForm(parsed) ELSE ListForm(parsed))]
    /\ converted' = converted \cup {form}
    /\ UNCHANGED <<parsed, users, checkinVars, loginVars, batch, schedVars>>

InitCookies ==
    /\ users = [id \in {} |-> NoUser]
    /\ user_seq = 0
    /\ checkin_logs = <<>>
    /\ now = 0
    /\ call = IdleCall
    /\ hist = NoHist
    /\ InitLoginIdle
    /\ batch = IdleBatch
    /\ InitSchedIdle
    /\ parsed \in Mappings
    /\ playwright_cookies = [form \in {"dict", "list"} |-> <<>>]
    /\ converted = {}

NextCookies == \E form \in {"dict", "list"} : Normalize(form)

SpecCookies == InitCookies /\ [][NextCookies]_vars

\* ------------------------------------------------------ claims on cookie values
\* Every entry of the parsed object states value, domain and path, so that
\* its flat form is a list of complete records.
Complete(m) ==
    \A i \in DOMAIN m :
        /\ m[i].info.kind = "dict"
        /\ MISSING \notin {m[i].info.value, m[i].info.domain, m[i].info.path}

\* C22: a cookies value in mapping form and the equivalent value in flat
\* list form are converted to the same cookie list, the .kdocs.cn copies
\* included.  Stated for values whose every entry is complete.
C22_FormsAgree ==
    (converted = {"dict", "list"} /\ Complete(parsed)) =>
        playwright_cookies["dict"] = playwright_cookies["list"]

\* C23: converting the mapping form gives one cookie per entry, in order,
\* with the entry's name, value, domain and path (domain .wps.cn when none
\* is given), followed by exactly one copy under .kdocs.cn of each cookie
\* of domain .wps.cn and by no copy of any other cookie.
C23_MappingNormalized ==
    "dict" \in converted =>
        LET out == playwright_cookies["dict"]
            n == Len(parsed)
            extra == (n + 1)..Len(out)
        IN  /\ Len(out) >= n
            /\ \A i \in 1..n :
                   LET info == parsed[i].info
                   IN  /\ out[i].name = parsed[i].name
                       /\ out[i].value =
                              (IF info.value = MISSING THEN "" ELSE info.value)
                       /\ out[i].domain =
                              (IF info.kind = "dict" /\ info.domain # MISSING
                                   THEN info.domain ELSE WPS_DOMAIN)
                       /\ out[i].path =
                              (IF info.kind = "dict" /\ info.path # MISSING
                                   THEN info.path ELSE "/")
            /\ \A i \in 1..n :
                   Cardinality({j \in extra : out[j].name = out[i].name}) =
                       (IF out[i].domain = WPS_DOMAIN THEN 1 ELSE 0)
            /\ \A j \in extra :
                   \E i \in 1..n :
                       /\ out[i].domain = WPS_DOMAIN
                       /\ out[j] = [out[i] EXCEPT !.domain = KDOCS_DOMAIN]

C23_Witness ==
    /\ "dict" \in converted
    /\ Len(parsed) = 2
    /\ parsed[1].info.kind = "dict" /\ parsed[1].info.domain = KDOCS_DOMAIN
    /\ parsed[2].info.kind = "dict" /\ parsed[2].info.domain = MISSING
    /\ Len(playwright_cookies["dict"]) = 3


\* --------------------------------------------------------- account requests
\* The statements the other requests run on the users table while check-ins
\* are in progress.  Each handler first reads the row (404 when absent) and
\* then awaits its statement; the statement is the step that writes.

\* A deletion that takes the account's records with it, as a key declared
\* ON DELETE CASCADE would.
delete_user_cascade(user_id, enforced) ==
    /\ user_id \in DOMAIN users
    /\ users' = [id \in DOMAIN users \ {user_id} |-> users[id]]
    /\ checkin_logs' = SelectSeq(checkin_logs, LAMBDA r : r.user_id # user_id)
    /\ UNCHANGED <<user_seq, now, call, hist, login_sessions, session, req,
                   task, poll, cookieVars, batch, schedVars>>

\* db.delete_user: DELETE FROM users WHERE id = ?.  checkin_logs.user_id
\* REFERENCES users (id) with no ON DELETE action, and no connection sets
\* PRAGMA foreign_keys: where the library enforces the key the statement
\* is refused for an account that has records, elsewhere the row goes and
\* its records stay.
delete_user(user_id, enforced) ==
    /\ user_id \in DOMAIN users
    /\ users' = IF enforced /\ \E n \in DOMAIN checkin_logs :
                                   checkin_logs[n].user_id = user_id
                    THEN users
                    ELSE [id \in DOMAIN users \ {user_id} |-> users[id]]
    /\ UNCHANGED <<user_seq, checkinVars, login_sessions, session, req, task,
                   poll, cookieVars, batch, schedVars>>

\* The keyword arguments of db.update_user that a check-in reads back:
\* input_name (PUT /api/users/{id}) and is_active (the same, and toggle).
UserUpdates ==
    [input_name : {"", "content"}] \cup [is_active : BOOLEAN]

\* db.update_user: UPDATE users SET ... WHERE id = ?
update_user(user_id, kwargs) ==
    /\ user_id \in DOMAIN users
    /\ users' = [users EXCEPT ![user_id] =
                    [k \in DOMAIN @ |->
                        IF k \in DOMAIN kwargs THEN kwargs[k] ELSE @[k]]]
    /\ UNCHANGED <<user_seq, checkinVars, login_sessions, session, req, task,
                   poll, cookieVars, batch, schedVars>>

\* A login of an account that is stored: db.add_user's UPDATE users SET
\* cookies = ?, nickname = ? WHERE wps_uid = ? with the new cookie object.
Relogin(wps_uid) ==
    /\ \E id \in DOMAIN users : users[id].wps_uid = wps_uid
    /\ users' = [id \in DOMAIN users |->
                    IF users[id].wps_uid = wps_uid
                        THEN [users[id] EXCEPT !.cookies = "mapping"]
                        ELSE users[id]]
    /\ UNCHANGED <<user_seq, checkinVars, login_sessions, session, req, task,
                   poll, cookieVars, batch, schedVars>>

\* The background task of one request has ended and the next request's task
\* runs: do_checkin_for_user is entered anew, with nothing kept from the
\* call before it.
Finished(i) ==
    /\ call[i].pc = "done"
    /\ Len(checkin_logs) < MaxRecords
    /\ call' = [call EXCEPT ![i] = IdleCall]
    /\ hist' = [hist EXCEPT ![i] = NoHist]
    /\ UNCHANGED <<users, checkin_logs, now, loginVars, cookieVars, batch, schedVars>>

NextRecords ==
    \/ NextCheckin
    \/ \E i \in Inv : Finished(i)
    \/ \E user_id \in UserIds, enforced \in BOOLEAN :
           delete_user(user_id, enforced)
    \/ \E user_id \in UserIds, kwargs \in UserUpdates :
           update_user(user_id, kwargs)
    \/ \E wps_uid \in UserIds : Relogin(wps_uid)

SpecRecords == InitCheckin /\ [][NextRecords]_vars


\* ------------------------------------------------ claims on the record table
\* C24: the check-in records are append-only.  Whatever step is taken (a
\* check-in's own, one of a later call, an account update, an account
\* deletion, a re-login), every record written before it is still there
\* afterwards, at its place, with the same account id, outcome and message,
\* and every record's outcome is "success" or "failed".
C24_RecordsAppendOnly ==
    [][/\ Len(checkin_logs') >= Len(checkin_logs)
       /\ \A n \in DOMAIN checkin_logs : checkin_logs'[n] = checkin_logs[n]
       /\ \A n \in DOMAIN checkin_logs' :
              checkin_logs'[n].status \in {"success", "failed"}]_vars

\* Two calls have written a success and a failure, the account was updated
\* in between and is now deleted.
C24_Witness ==
    /\ Len(checkin_logs) = 2
    /\ checkin_logs[1].status = "success"
    /\ checkin_logs[2].status = "failed"
    /\ checkin_logs[2].message = PlainMessage("no_content")
    /\ checkin_logs[1].user_id \notin DOMAIN users


Notifies(i) == hist'[i].notifies = hist[i].notifies + 1

\* C26: what becomes of the notification does not touch the check-in.  In
\* the step that calls send_user_notification, whether the message is
\* sent, fails or is skipped for want of a sendkey, the invocation returns
\* (nothing is raised) the value that the record written before it fixes,
\* the records and the accounts stay as they are, and no submission
\* attempt or retry delay is added.
C26_NotifyKeepsOutcome ==
    [][\A i \in Inv :
           Notifies(i) =>
               /\ hist'[i].delivery \in Deliveries
               /\ call'[i].pc = "done"
               /\ call'[i].ret = (hist[i].record_status = "success")
               /\ checkin_logs' = checkin_logs
               /\ users' = users
               /\ hist'[i].submits = hist[i].submits
               /\ hist'[i].sleeps = hist[i].sleeps
               /\ hist'[i].records = hist[i].records
               /\ hist[i].records = 1]_vars

\* A check-in that succeeded at a retry and whose notification failed.
C26_Witness ==
    \E i \in Inv :
        /\ Done(i)
        /\ hist[i].delivery = "send_failed"
        /\ call[i].ret = TRUE
        /\ hist[i].submits = 2
        /\ hist[i].records = 1


\* The account as loaded has content and a blob that parses to a value that
\* is neither a mapping nor a sequence.
ScalarBlob(i) ==
    /\ AccountExists(i)
    /\ call[i].user.input_name # ""
    /\ call[i].user.cookies = "scalar"

\* C27: for an account whose blob parses but is neither a mapping nor a
\* sequence, the invocation makes at most one submission attempt and waits
\* for no retry delay, and its one record is a failed one.
C27_ScalarBlobTerminal ==
    \A i \in Inv :
        ScalarBlob(i) =>
            /\ hist[i].submits <= 1
            /\ hist[i].sleeps = 0
            /\ hist[i].records = 1 => hist[i].record_status = "failed"


TaskWrites(t) ==
    /\ task'[t].pc # task[t].pc
    /\ task[t].session \in SessionIds
    /\ LET old == session[task[t].session]
           new == session'[task[t].session]
       IN  \/ new.status # old.status
           \/ new.error # old.error
           \/ new.db_user_id # old.db_user_id

\* C29: a driving task writes to its session only while the session is
\* open and registered: no step of the task changes the status, the error
\* or the attached account id of a session that a poller has closed and
\* removed from login_sessions.
C29_NoWriteAfterRetire ==
    [][\A t \in SessionIds :
           TaskWrites(t) =>
               ~(Closed(task[t].session) /\ task[t].session \notin Registered)]_vars


\* What a session holds: the cookies and the remote account id of its
\* result, and its error text.
HasBlob(sess) == sess.result.cookies # {}
HasRemoteId(sess) == sess.result.user_id # NONE
HasError(sess) == sess.error # NULL

\* C30: in every state of every session, the result's cookies and remote
\* account id are there exactly when the status is success, and the error
\* text is there exactly when the status is failed.
C30_ResultMatchesStatus ==
    \A s \in SessionIds :
        session[s].status # "unborn" =>
            /\ HasBlob(session[s]) <=> session[s].status = "success"
            /\ HasRemoteId(session[s]) <=> session[s].status = "success"
            /\ HasError(session[s]) <=> session[s].status = "failed"


\* ------------------------------------------- claims on overlapping reconciles
\* No request and no setup task is in progress.
AllReturned == \A o \in OpIds : op[o].pc = "idle"

\* C31: whenever the scheduler runs and every operation (create, update,
\* delete, toggle, each with its own reconcile, and the initial setup) has
\* returned, the jobs are exactly those of the enabled stored triggers:
\* one job per enabled trigger with its hour and minute, and no other.
C31_QuiescentTimersMatch ==
    (running /\ AllReturned) => TimersOf(jobs, schedule_configs)


\* C32: a reconcile leaves the timer of every trigger that stays enabled in
\* place.  Stated for a reconcile that runs alone, after an undisturbed
\* reconcile and with the enabled triggers unchanged since: at every
\* moment between its first and its last step, each enabled trigger has
\* its job.
C32_EnabledKeepsTimer ==
    \A o \in OpIds :
        (Reconciling(o) /\ o \in quiet.alone /\ quiet.valid) =>
            \A row \in schedule_configs :
                row.is_enabled => \E j \in jobs : j.id = JobId(row)


\* ------------------------------------------------------ overlapping check-ins
\* do_checkin_for_user is entered from manual_self_checkin and
\* manual_checkin (a background task each) and from every do_checkin_all
\* run (the manual one and one per scheduler job), always as
\* do_checkin_for_user(user.id).  A call takes the first slot not yet used;
\* nothing of the other calls is looked at.
Overlap == 1..MaxOverlap

TriggerExclusive(i, uid) ==
    /\ call[i].pc = "idle"
    /\ \A j \in Overlap : j < i => call[j].pc # "idle"
    /\ \A j \in Overlap : call[j].user_id = uid => call[j].pc \in {"idle", "done"}
    /\ call' = [call EXCEPT ![i] = Entered(uid)]
    /\ UNCHANGED <<users, checkin_logs, now, hist, loginVars, cookieVars, batch, schedVars>>

Trigger(i, uid) ==
    /\ call[i].pc = "idle"
    /\ \A j \in Overlap : j < i => call[j].pc # "idle"
    /\ call' = [call EXCEPT ![i] = Entered(uid)]
    /\ UNCHANGED <<users, checkin_logs, now, hist, loginVars, cookieVars, batch, schedVars>>

InitOverlap ==
    /\ \E D \in SUBSET UserIds :
           users \in {u \in [D -> UNION {UserRows(id) : id \in D}] :
                          \A id \in D : u[id] \in UserRows(id)}
    /\ user_seq = MaxUsers
    /\ InitLoginIdle
    /\ batch = IdleBatch
    /\ InitCookiesIdle
    /\ InitSchedIdle
    /\ checkin_logs = <<>>
    /\ now = 0
    /\ call = [i \in Overlap |-> IdleCall]
    /\ hist = [i \in Overlap |-> NoHist]

NextOverlap ==
    \/ \E i \in Overlap, uid \in UserIds : Trigger(i, uid)
    \/ \E i \in Overlap : GetUser(i)
    \/ \E i \in Overlap : RetrySleep(i)
    \/ \E i \in Overlap : Execute(i)
    \/ \E i \in Overlap : AddCheckinLog(i)
    \/ \E i \in Overlap : UpdateLastCheckin(i)
    \/ \E i \in Overlap : Notify(i)

SpecOverlap == InitOverlap /\ [][NextOverlap]_vars

RECURSIVE RecordsOf(_)
RecordsOf(slots) ==
    IF slots = {} THEN 0
    ELSE LET i == CHOOSE x \in slots : TRUE
         IN  hist[i].records + RecordsOf(slots \ {i})

\* C33: calls for one account are not mutually exclusive.  A new call is
\* never kept from starting by the calls in progress, whatever they are
\* doing and for whichever account; every record in the table is the one
\* record of one call, and every call that ends for a stored account has
\* written its own.
C33_NotMutuallyExclusive ==
    /\ \A i \in Overlap, uid \in UserIds :
           (call[i].pc = "idle" /\ \A j \in Overlap : j < i => call[j].pc # "idle")
               => ENABLED Trigger(i, uid)
    /\ Len(checkin_logs) = RecordsOf(Overlap)
    /\ \A i \in Overlap :
           (Done(i) /\ AccountExists(i)) => hist[i].records = 1

\* Two calls for the same account have a submission in progress at once,
\* one of them its second.
C33_Witness ==
    /\ call[1].pc = "execute" /\ call[2].pc = "execute"
    /\ call[1].user_id = call[2].user_id
    /\ hist[1].submits = 1 /\ hist[2].submits = 0
    /\ checkin_logs = <<>>


\* C34: the first attempt is not preceded by a retry delay, every later
\* attempt starts after one whole delay of RETRY_DELAY seconds that began
\* when the attempt before it had ended, and no delay follows the last
\* attempt: attempt number k starts with k delays ended, each delay starts
\* with as many attempts made as delays ended plus one, and a call that has
\* left the loop after k attempts has waited k - 1 delays.
C34_DelayBetweenAttempts ==
    /\ [](\A i \in Inv :
           /\ hist[i].slept = RETRY_DELAY * hist[i].sleeps
           /\ call[i].pc = "execute" => hist[i].sleeps = hist[i].submits
           /\ call[i].pc = "sleep" =>
                  /\ hist[i].submits >= 1
                  /\ hist[i].sleeps = hist[i].submits - 1
                  /\ hist[i].submits <= call[i].max_retries
           /\ (call[i].pc \in {"log", "update_last", "notify", "done"}
                   /\ hist[i].submits >= 1) =>
                  hist[i].sleeps = hist[i].submits - 1
           /\ hist[i].submits = 0 => hist[i].sleeps = 0)
    /\ [][\A i \in Inv :
              /\ hist'[i].submits = hist[i].submits + 1 =>
                     hist[i].slept = RETRY_DELAY * hist[i].submits
              /\ hist'[i].sleeps = hist[i].sleeps + 1 =>
                     /\ hist'[i].slept = hist[i].slept + RETRY_DELAY
                     /\ hist'[i].submits = hist[i].submits]_vars

\* Three attempts were made and the call has ended: two delays, 120 s.
C34_Witness ==
    \E i \in Inv :
        /\ Done(i)
        /\ hist[i].submits = 3
        /\ hist[i].sleeps = 2
        /\ hist[i].slept = 2 * RETRY_DELAY


\* ------------------------------------------------------------- termination
\* The awaited calls of a batch run and of its do_checkin_for_user calls
\* return: whichever of these steps is possible is taken in the end.  A
\* run is sequential, so at most one of them is possible at a time.
BatchProgress ==
    \/ BatchLoaded
    \/ BatchCount
    \/ BatchDelay
    \/ \E i \in AccountIds : GetUser(i)
    \/ \E i \in AccountIds : RetrySleep(i)
    \/ \E i \in AccountIds : Execute(i)
    \/ \E i \in AccountIds : AddCheckinLog(i)
    \/ \E i \in AccountIds : UpdateLastCheckin(i)
    \/ \E i \in AccountIds : Notify(i)

\* The runs whose accounts have content and a blob that is a cookie object
\* or does not parse; each account is enabled or not.
InitFair ==
    /\ InitBatch
    /\ \A id \in AccountIds :
           /\ users[id].cookies \in {"mapping", "malformed"}
           /\ users[id].input_name = "content"

FairBatch == InitFair /\ [][NextBatch]_vars /\ WF_vars(BatchProgress)

\* Every listed account has had its one call, and no one else has.
EachCalledOnce ==
    /\ \A k \in Entries : Ended(k) /\ call[k].user_id = batch.listing[k]
    /\ \A k \in AccountIds \ Entries : call[k].pc = "idle"

\* C35: when every awaited call returns, every do_checkin_for_user call
\* that was entered ends, having made at most max_retries + 1 submission
\* attempts, and every batch run that was started ends, having called
\* do_checkin_for_user once for each account of its listing.
C35_Terminates ==
    /\ [](\A k \in AccountIds : hist[k].submits <= call[k].max_retries + 1)
    /\ \A k \in AccountIds : InFlight(k) ~> Ended(k)
    /\ (batch.pc = "loading") ~> (batch.pc = "done" /\ EachCalledOnce)

\* A finished run over two accounts whose every attempt failed.
C35_Witness ==
    /\ batch.pc = "done"
    /\ Len(batch.listing) = 2
    /\ \A k \in Entries : hist[k].submits = DEFAULT_MAX_RETRIES + 1


\* ----------------------------------------------------- claims on the registry
\* C36: a start_login that succeeds stores its session under a channel id
\* that is not a key of login_sessions at that moment, whether the id came
\* from the remote service or was made from the clock: no entry of a
\* session that has not been retired is replaced.
C36_FreshChannelId ==
    [][\A s \in SessionIds :
           (req[s].pc = "starting" /\ req'[s].pc = "returned") =>
               req'[s].channel_id \notin DOMAIN login_sessions]_vars


\* A step of a get_login_status call that read a terminal status of b.
TerminalStatusStep(b) ==
    \E p \in PollIds : /\ poll'[p] # poll[p]
                       /\ poll'[p].session = b
                       /\ poll'[p].status \in Terminal

\* Only get_login_status on a terminal session takes a key out of
\* login_sessions, and only it calls or completes close() on a session that
\* is in the registry.
OnlyStatusRetires ==
    /\ \A ch \in DOMAIN login_sessions :
           ch \notin DOMAIN login_sessions' =>
               \E b \in SessionIds : TerminalStatusStep(b)
    /\ \A b \in Registered :
           (\/ session'[b].closes # session[b].closes
            \/ session'[b].released # session[b].released
            \/ session'[b].ended # session[b].ended)
               => TerminalStatusStep(b)

\* A registered session in success or failed stays in the registry, with
\* what it holds, through every step that is not such a call's.
UnpolledStays ==
    \A b \in Registered :
        (session[b].status \in Terminal /\ ~TerminalStatusStep(b)) =>
            /\ b \in {login_sessions'[c] : c \in DOMAIN login_sessions'}
            /\ session'[b].released = session[b].released

\* C37: only a get_login_status call that read success or failed takes an
\* entry out of login_sessions or closes a session that is in it; the
\* background task and the login timeout do neither, so a session in
\* success or failed that no such call reads stays in the registry with
\* its resources unreleased.
C37_OnlyStatusRetires == [][OnlyStatusRetires /\ UnpolledStays]_vars


\* ------------------------------------------- a batch run and account requests
\* PUT /api/users/{id}, POST /api/users/{id}/toggle and DELETE
\* /api/users/{id} are served on the event loop while a do_checkin_all run
\* is suspended in one of its awaits, its listing loaded and its loop not
\* ended.
InitAccounts ==
    /\ InitBatch
    /\ \A id \in AccountIds : /\ users[id].is_active
                              /\ users[id].cookies = "mapping"
                              /\ users[id].input_name = "content"

NextAccounts ==
    \/ Batch
    \/ BatchProgress
    \/ \E id \in AccountIds, a \in BOOLEAN :
           batch.pc \in {"single", "sleep"} /\ update_user(id, [is_active |-> a])
    \/ \E id \in AccountIds, enforced \in BOOLEAN :
           batch.pc \in {"single", "sleep"} /\ delete_user(id, enforced)

SpecAccounts == InitAccounts /\ [][NextAccounts]_vars

\* The account of call k is stored and enabled.
EnabledNow(k) ==
    /\ call[k].user_id \in DOMAIN users
    /\ users[call[k].user_id].is_active

\* C38: a do_checkin_all run starts a submission attempt (the entry into
\* execute_checkin) only for an account whose is_active flag is set at that
\* moment: an account disabled or deleted after the run loaded its listing
\* and before its turn gets no submission from the run.
C38_NoAttemptWhenDisabled ==
    [][\A k \in AccountIds :
           (call[k].pc # "execute" /\ call'[k].pc = "execute") =>
               EnabledNow(k)]_vars


\* ------------------------------------------------- claims on the account row
\* The step writes last_checkin of the account of invocation i, which has
\* written a success record for it, and nothing else of the users table.
StampsAfterSuccess(i) ==
    /\ call[i].pc = "update_last"
    /\ call'[i].pc = "notify"
    /\ hist[i].records = 1
    /\ hist[i].record_status = "success"
    /\ Logged(call[i].user_id, "success", hist[i].record_message)
    /\ users' = [users EXCEPT ![call[i].user_id].last_checkin = now']

\* Invocation j has written a success record for account uid.
SuccessRecordFor(j, uid) ==
    call[j].user_id = uid /\ hist[j].record_status = "success"

\* C39: the users table changes only in the update_last_checkin step of an
\* invocation that has written a success record for that account, and only
\* in that account's last_checkin; an invocation that ended in failure,
\* fail-fast or with its retries exhausted, has written no success record
\* and so made no such step: where no other invocation has written one for
\* the account, the row is as the invocation loaded it, last_checkin
\* included.
C39_StampOnlyAfterSuccess ==
    /\ [](\A i \in Inv :
              (Done(i) /\ ~call[i].ret /\ AccountExists(i)) =>
                  /\ hist[i].record_status # "success"
                  /\ call[i].user_id \in DOMAIN users
                  /\ (\A j \in Inv \ {i} : ~SuccessRecordFor(j, call[i].user_id))
                         => users[call[i].user_id] = call[i].user)
    /\ [][users' # users => \E i \in Inv : StampsAfterSuccess(i)]_vars

\* An invocation with two retries has used them all and ended in failure.
C39_Witness ==
    \E i \in Inv :
        /\ Done(i)
        /\ ~call[i].ret
        /\ hist[i].submits = DEFAULT_MAX_RETRIES + 1
        /\ hist[i].record_status = "failed"
        /\ users[call[i].user_id] = call[i].user
        /\ users[call[i].user_id].last_checkin = NEVER


\* The account id invocation i was called with is in no row of users.
Absent(i) == call[i].pc # "idle" /\ call[i].user_id \notin DOMAIN users

\* C40: do_checkin_for_user for an id that is not in the users table
\* returns False when its get_user has returned: it makes no execute_checkin
\* call, sleeps for no retry, writes no record and makes no notification
\* call, and the users and checkin_logs tables are as they were.
C40_AbsentAccountReturnsFalse ==
    /\ [](\A i \in Inv :
              Absent(i) =>
                  /\ call[i].pc \in {"get_user", "done"}
                  /\ Done(i) => ~call[i].ret
                  /\ hist[i] = NoHist
                  /\ \A n \in 1..Len(checkin_logs) :
                         checkin_logs[n].user_id # call[i].user_id)
    /\ [][\A i \in Inv :
              (Absent(i) /\ call'[i] # call[i]) =>
                  /\ call'[i].pc = "done"
                  /\ users' = users
                  /\ checkin_logs' = checkin_logs]_vars

C40_Witness ==
    \E i \in Inv :
        /\ Absent(i)
        /\ Done(i)
        /\ call[i].ret = FALSE
        /\ hist[i].submits = 0
        /\ hist[i].notifies = 0
        /\ checkin_logs = <<>>

====
